---- MODULE Spec2Model ----
(***************************************************************************)
(* MoonTV Plus storage layer: D1Storage (src/lib/d1.db.ts) and             *)
(* PostgresStorage (src/lib/postgres.db.ts) over the relational schema of  *)
(* migrations/postgres/*.sql.  Tables are sets of rows; every storage      *)
(* method is one action (or, for a pure read, one operator over the        *)
(* tables).  The variable backend selects which of the two classes runs.   *)
(***************************************************************************)
EXTENDS Integers, Sequences, FiniteSets, TLC

\* ------------------------------------------------------------------ bounds
MaxUser == 1        \* stored usernames other than the site owner: 1..MaxUser
MaxPw == 1          \* plaintext passwords 0..MaxPw
MaxTime == 2        \* Date.now() ranges over 1..MaxTime

\* ------------------------------------------------------- program constants
USERNAME == 0       \* process.env.USERNAME (the site owner)
PASSWORD == 0       \* process.env.PASSWORD

Usernames == 0 .. MaxUser
Passwords == 0 .. MaxPw
Roles == {"owner", "admin", "user"}
Backends == {"d1", "postgres"}

\* crypto.subtle.digest('SHA-256', ...) rendered as hex: injective on the
\* modelled passwords, never the empty string, never the plaintext.
EmptyString == <<>>
NULL == <<"NULL">>
hashPassword(password) == <<"sha256", password>>

VARIABLES
  backend,          \* "d1" (D1Storage) or "postgres" (PostgresStorage)
  now,              \* the value Date.now() returns
  users,            \* table users
  userInfoCache,    \* ./user-cache: username -> cached getUserInfoV2 result
  play_records,     \* table play_records
  favorites,        \* table favorites
  skip_configs,     \* table skip_configs
  search_history,   \* table search_history
  nextSearchId,     \* the SERIAL / AUTOINCREMENT counter of search_history.id
  danmaku_filter_configs, notifications, user_movie_requests,
  favorite_check_times, music_play_records, music_playlists,
  music_playlist_songs,   \* the other tables that reference users
  global_config,    \* table global_config (key, value, updated_at)
  ret,              \* the result of the last operation that returns one
  lastPassword,     \* history: per user, the password last set through the API
                    \* (-1: none, or a hash was written directly) and whether
                    \* changePassword / changePasswordV2 set it
  lastSet,          \* history: per table and (username, key), the last value set
  listing,          \* a client paging through getUserListV2
  postgres_play_records,  \* table play_records of a PostgresStorage driven
                    \* side by side with a D1Storage (play_records)
  tasks,            \* DownloadProvider: downloader.getAllTasks(), task id -> status
  startingTaskIds,  \* DownloadProvider: the state startingTaskIds
  startTaskCalls,   \* the task ids with a downloader.startTask call in flight
  downloadingTasks, \* music route: the Map downloadingTasks, taskKey -> promise
  audioTasks,       \* music route: the download tasks in flight and where they are
  proxyRequests,    \* music route: serverCache.proxyRequests, cacheKey -> entry
  openListFiles,    \* music route: the parse results stored as JSON on OpenList
  reading,          \* the getUserInfoV2 calls suspended at an await
  updating          \* the updateUserInfoV2 calls suspended at an await

userVars == <<users, userInfoCache>>
kvVars == <<play_records, favorites, skip_configs>>
searchVars == <<search_history, nextSearchId>>
otherTables == <<danmaku_filter_configs, notifications, user_movie_requests,
                 favorite_check_times, music_play_records, music_playlists,
                 music_playlist_songs, global_config>>
tableVars == <<kvVars, searchVars, otherTables>>
histVars == <<lastPassword, lastSet, listing>>
\* the state of the components that the storage operations above leave alone
others == <<postgres_play_records, tasks, startingTaskIds, startTaskCalls,
            downloadingTasks, audioTasks, proxyRequests, openListFiles,
                 reading, updating>>
vars == <<backend, others, now, userVars, tableVars, ret, histVars>>

\* ------------------------------------------------------------ table users
HasUser(tbl, u) == \E r \in tbl : r.username = u
UserRow(tbl, u) == CHOOSE r \in tbl : r.username = u

\* INSERT INTO users (...) VALUES (..., 1, 1, 1): the three migrated flags
\* are written as 1 by every INSERT of the storage classes.
NewUserRow(u, hash, role, banned, createdAt) ==
  [username |-> u, password_hash |-> hash, role |-> role, banned |-> banned,
   created_at |-> createdAt, playrecord_migrated |-> 1,
   favorite_migrated |-> 1, skip_migrated |-> 1, email |-> NULL]

\* UPDATE users SET <col> = <val> WHERE username = u
UpdateUsers(tbl, u, col, val) ==
  {IF r.username = u THEN [r EXCEPT ![col] = val] ELSE r : r \in tbl}

\* DELETE FROM users WHERE username = u
DeleteFromUsers(tbl, u) == {r \in tbl : r.username # u}

\* ------------------------------------------------------------- user cache
CacheHas(u) == \E e \in userInfoCache : e.username = u
CacheGet(u) == (CHOOSE e \in userInfoCache : e.username = u).info
CacheDelete(cache, u) == {e \in cache : e.username # u}
CacheSet(cache, u, info) == CacheDelete(cache, u) \cup {[username |-> u, info |-> info]}

\* ---------------------------------------------------------- verifyUser
\* verifyUser without the comparison of the stored hash with the digest.
verifyUserNoCompare(tbl, userName, password) ==
  IF userName = USERNAME /\ password = PASSWORD
  THEN TRUE
  ELSE LET found == {r \in tbl : r.username = userName /\ r.banned = 0}
       IN  found # {} /\ (CHOOSE r \in found : TRUE).password_hash # EmptyString

verifyUser(tbl, userName, password) ==
  IF userName = USERNAME /\ password = PASSWORD
  THEN TRUE
  ELSE LET found == {r \in tbl : r.username = userName /\ r.banned = 0}
       IN  IF found = {} THEN FALSE
           ELSE LET user == CHOOSE r \in found : TRUE
                IN  IF user.password_hash = EmptyString THEN FALSE
                    ELSE user.password_hash = hashPassword(password)


\* ---------------------------------------------------------- schema
\* A schema in which notifications declares no foreign key to users.
ReferencesUsersButNotifications(tableName) ==
  tableName \in {"play_records", "favorites", "search_history", "skip_configs",
                 "danmaku_filter_configs", "user_movie_requests",
                 "favorite_check_times", "music_play_records", "music_playlists"}

\* FOREIGN KEY (username) REFERENCES users(username) ON DELETE CASCADE:
\* the tables whose schema declares it.
ReferencesUsers(tableName) ==
  tableName \in {"play_records", "favorites", "search_history", "skip_configs",
                 "danmaku_filter_configs", "notifications", "user_movie_requests",
                 "favorite_check_times", "music_play_records", "music_playlists"}

\* What the database leaves of table tbl when the users row of u is deleted.
OnDeleteCascade(tableName, tbl, u) ==
  IF ReferencesUsers(tableName) THEN {r \in tbl : r.username # u} ELSE tbl

\* FOREIGN KEY (playlist_id) REFERENCES music_playlists(id) ON DELETE CASCADE
OnDeletePlaylists(songs, playlists) ==
  {s \in songs : \E p \in playlists : p.id = s.playlist_id}

\* DELETE FROM users WHERE username = u, with every cascade it triggers.
DeleteUsersRow(u) ==
  /\ users' = DeleteFromUsers(users, u)
  /\ play_records' = OnDeleteCascade("play_records", play_records, u)
  /\ favorites' = OnDeleteCascade("favorites", favorites, u)
  /\ skip_configs' = OnDeleteCascade("skip_configs", skip_configs, u)
  /\ search_history' = OnDeleteCascade("search_history", search_history, u)
  /\ danmaku_filter_configs' =
       OnDeleteCascade("danmaku_filter_configs", danmaku_filter_configs, u)
  /\ notifications' = OnDeleteCascade("notifications", notifications, u)
  /\ user_movie_requests' =
       OnDeleteCascade("user_movie_requests", user_movie_requests, u)
  /\ favorite_check_times' =
       OnDeleteCascade("favorite_check_times", favorite_check_times, u)
  /\ music_play_records' =
       OnDeleteCascade("music_play_records", music_play_records, u)
  /\ music_playlists' = OnDeleteCascade("music_playlists", music_playlists, u)
  /\ music_playlist_songs' =
       OnDeletePlaylists(music_playlist_songs,
                         OnDeleteCascade("music_playlists", music_playlists, u))
  /\ UNCHANGED <<nextSearchId, global_config>>

\* ------------------------------------------------------- user management
Null == [null |-> TRUE]

\* The object getUserInfoV2 builds from a users row.
RowToUserInfo(bk, user, userName) ==
  [role |-> IF bk = "d1" /\ userName = USERNAME THEN "owner" ELSE user.role,
   banned |-> (user.banned = 1),
   created_at |-> user.created_at,
   playrecord_migrated |-> (user.playrecord_migrated = 1),
   favorite_migrated |-> (user.favorite_migrated = 1),
   skip_migrated |-> (user.skip_migrated = 1)]

\* The default object getUserInfoV2 returns for a site owner without a row.
OwnerInfo(t) ==
  [role |-> "owner", banned |-> FALSE, created_at |-> t,
   playrecord_migrated |-> TRUE, favorite_migrated |-> TRUE,
   skip_migrated |-> TRUE]

\* getUserInfoV2 as a function of the store: its result, and the users
\* table and the cache it leaves.
getUserInfoV2(bk, tbl, cache, t, userName) ==
  IF \E e \in cache : e.username = userName
  THEN [info |-> (CHOOSE e \in cache : e.username = userName).info,
        users |-> tbl, cache |-> cache]
  ELSE IF HasUser(tbl, userName)
  THEN LET userInfo == RowToUserInfo(bk, UserRow(tbl, userName), userName)
       IN  [info |-> userInfo, users |-> tbl,
            cache |-> CacheSet(cache, userName, userInfo)]
  ELSE IF userName = USERNAME
  THEN [info |-> OwnerInfo(t),
        users |-> tbl \cup {NewUserRow(userName, EmptyString, "owner", 0, t)},
        cache |-> CacheSet(cache, userName, OwnerInfo(t))]
  ELSE [info |-> Null, users |-> tbl, cache |-> cache]

GetUserInfoV2(userName) ==
  LET r == getUserInfoV2(backend, users, userInfoCache, now, userName)
  IN  /\ users' = r.users
      /\ userInfoCache' = r.cache
      /\ ret' = [op |-> "getUserInfoV2", userName |-> userName, value |-> r.info]
      /\ UNCHANGED <<backend, others, now, tableVars, histVars>>

\* Which methods end with userInfoCache.delete(userName) in each class.
ClearsCache(bk, method) ==
  \/ method \in {"updateUserInfoV2", "deleteUserV2", "setUserEmail"}
  \/ bk = "d1" /\ method \in {"createUserV2", "changePasswordV2",
                              "migratePlayRecords", "migrateFavorites",
                              "migrateSkipConfigs"}

CacheAfter(method, userName) ==
  IF ClearsCache(backend, method) THEN CacheDelete(userInfoCache, userName)
  ELSE userInfoCache

\* INSERT INTO users: the database refuses it when the primary key exists and
\* the table is left as it was (SpecWrite has what the caller is told).
CreateUserV2(userName, password, role) ==
  /\ ~HasUser(users, userName)
  /\ users' = users \cup {NewUserRow(userName, hashPassword(password), role, 0, now)}
  /\ userInfoCache' = CacheAfter("createUserV2", userName)
  /\ lastPassword' = [lastPassword EXCEPT ![userName] = [pw |-> password, changed |-> FALSE]]
  /\ UNCHANGED <<backend, others, now, tableVars, ret, lastSet, listing>>

CreateUserWithHashedPassword(userName, passwordHash, role, createdAt, banned) ==
  /\ ~HasUser(users, userName)
  /\ users' = users \cup
       {NewUserRow(userName, passwordHash, role, IF banned THEN 1 ELSE 0, createdAt)}
  /\ lastPassword' = [lastPassword EXCEPT ![userName] = [pw |-> -1, changed |-> FALSE]]
  /\ UNCHANGED <<backend, others, now, userInfoCache, tableVars, ret, lastSet, listing>>

\* scripts/init-postgres.js: INSERT the owner row ... ON CONFLICT DO NOTHING
InitPostgres ==
  /\ backend = "postgres"
  /\ ~HasUser(users, USERNAME)
  /\ users' = users \cup
       {NewUserRow(USERNAME, hashPassword(PASSWORD), "owner", 0, now)}
  /\ UNCHANGED <<backend, others, now, userInfoCache, tableVars, ret, histVars>>

ChangePassword(userName, newPassword) ==
  /\ users' = UpdateUsers(users, userName, "password_hash", hashPassword(newPassword))
  /\ lastPassword' = IF HasUser(users, userName)
                     THEN [lastPassword EXCEPT ![userName] = [pw |-> newPassword, changed |-> TRUE]]
                     ELSE lastPassword
  /\ UNCHANGED <<backend, others, now, userInfoCache, tableVars, ret, lastSet, listing>>

ChangePasswordV2(userName, newPassword) ==
  /\ users' = UpdateUsers(users, userName, "password_hash", hashPassword(newPassword))
  /\ userInfoCache' = CacheAfter("changePasswordV2", userName)
  /\ lastPassword' = IF HasUser(users, userName)
                     THEN [lastPassword EXCEPT ![userName] = [pw |-> newPassword, changed |-> TRUE]]
                     ELSE lastPassword
  /\ UNCHANGED <<backend, others, now, tableVars, ret, lastSet, listing>>

SetUserPasswordHash(userName, passwordHash) ==
  /\ users' = UpdateUsers(users, userName, "password_hash", passwordHash)
  /\ lastPassword' = [lastPassword EXCEPT ![userName] = [pw |-> -1, changed |-> FALSE]]
  /\ UNCHANGED <<backend, others, now, userInfoCache, tableVars, ret, lastSet, listing>>

\* The row an INSERT OR REPLACE of the updated columns would leave: the
\* columns it does not name fall back to the schema defaults.
UpdatedUserReplace(r, updates) ==
  [r EXCEPT !.role = IF "role" \in updates.fields THEN updates.role ELSE @,
            !.banned = IF "banned" \in updates.fields
                       THEN (IF updates.banned THEN 1 ELSE 0) ELSE @,
            !.playrecord_migrated = 0, !.favorite_migrated = 0,
            !.skip_migrated = 0]

\* updates: the set of fields present, and their values.
UpdatedUser(r, updates) ==
  [r EXCEPT !.role = IF "role" \in updates.fields THEN updates.role ELSE @,
            !.banned = IF "banned" \in updates.fields
                       THEN (IF updates.banned THEN 1 ELSE 0) ELSE @]

UpdateUserInfoV2(userName, updates) ==
  /\ IF updates.fields = {}
     THEN UNCHANGED userVars
     ELSE /\ users' = {IF r.username = userName THEN UpdatedUser(r, updates) ELSE r :
                       r \in users}
          /\ userInfoCache' = CacheAfter("updateUserInfoV2", userName)
  /\ UNCHANGED <<backend, others, now, tableVars, ret, histVars>>

SetUserEmail(userName, email) ==
  /\ users' = UpdateUsers(users, userName, "email", email)
  /\ userInfoCache' = CacheAfter("setUserEmail", userName)
  /\ UNCHANGED <<backend, others, now, tableVars, ret, histVars>>

\* UPDATE users SET <flag> = 1 WHERE username = ?
Migrate(method, flag, userName) ==
  /\ users' = UpdateUsers(users, userName, flag, 1)
  /\ userInfoCache' = CacheAfter(method, userName)
  /\ UNCHANGED <<backend, others, now, tableVars, ret, histVars>>

MigratePlayRecords(userName) ==
  Migrate("migratePlayRecords", "playrecord_migrated", userName)
MigrateFavorites(userName) ==
  Migrate("migrateFavorites", "favorite_migrated", userName)
MigrateSkipConfigs(userName) ==
  Migrate("migrateSkipConfigs", "skip_migrated", userName)

DeleteUser(userName) ==
  /\ DeleteUsersRow(userName)
  /\ UNCHANGED <<backend, others, now, userInfoCache, ret, histVars>>

DeleteUserV2(userName) ==
  /\ DeleteUsersRow(userName)
  /\ userInfoCache' = CacheAfter("deleteUserV2", userName)
  /\ UNCHANGED <<backend, others, now, ret, histVars>>


\* ------------------------------------- play records, favorites, skip configs
MaxKey == 2
Keys == 1 .. MaxKey

\* An optional value is a set of at most one element: {} is undefined / NULL.
\* x || null and x || undefined: a falsy x (undefined, null, 0) gives {}.
OrNull(x) == IF x = {} \/ x = {0} THEN {} ELSE x
StringOrNull(x) == IF x = {} \/ x = {""} THEN {} ELSE x

\* INSERT ... ON CONFLICT(username, key) DO UPDATE SET <every other column>
Upsert(tbl, row) ==
  {r \in tbl : ~(r.username = row.username /\ r.key = row.key)} \cup {row}

\* DELETE FROM <tbl> WHERE username = ? AND key = ?
DeleteKey(tbl, u, k) == {r \in tbl : ~(r.username = u /\ r.key = k)}

\* SELECT * FROM <tbl> WHERE username = ? AND key = ?
SelectKey(tbl, u, k) == {r \in tbl : r.username = u /\ r.key = k}

\* The row setPlayRecord binds. PostgresStorage neither binds nor has the
\* column new_episodes.
PlayRecordRow(bk, u, k, record) ==
  IF bk = "d1"
  THEN [username |-> u, key |-> k, play_time |-> record.play_time,
        save_time |-> record.save_time,
        new_episodes |-> OrNull(record.new_episodes)]
  ELSE [username |-> u, key |-> k, play_time |-> record.play_time,
        save_time |-> record.save_time]

rowToPlayRecord(bk, row) ==
  [play_time |-> row.play_time, save_time |-> row.save_time,
   new_episodes |-> IF bk = "d1" THEN OrNull(row.new_episodes) ELSE {}]

getPlayRecord(bk, tbl, u, k) ==
  LET result == SelectKey(tbl, u, k)
  IN  IF result = {} THEN {} ELSE {rowToPlayRecord(bk, CHOOSE r \in result : TRUE)}

FavoriteRow(u, k, favorite) ==
  [username |-> u, key |-> k, save_time |-> favorite.save_time,
   origin |-> StringOrNull(favorite.origin),
   is_completed |-> IF favorite.is_completed THEN 1 ELSE 0]

rowToFavorite(row) ==
  [save_time |-> row.save_time, origin |-> row.origin,
   is_completed |-> (row.is_completed = 1)]

getFavorite(tbl, u, k) ==
  LET result == SelectKey(tbl, u, k)
  IN  IF result = {} THEN {} ELSE {rowToFavorite(CHOOSE r \in result : TRUE)}

\* const key = `${source}+${id}`
SkipKey(source, id) == source \o <<"+">> \o id

SkipConfigRow(u, source, id, config) ==
  [username |-> u, key |-> SkipKey(source, id),
   enable |-> IF config.enable THEN 1 ELSE 0,
   intro_time |-> config.intro_time, outro_time |-> config.outro_time]

getSkipConfig(tbl, u, source, id) ==
  LET result == SelectKey(tbl, u, SkipKey(source, id))
  IN  IF result = {} THEN {}
      ELSE LET row == CHOOSE r \in result : TRUE
           IN  {[enable |-> (row.enable = 1), intro_time |-> row.intro_time,
                 outro_time |-> row.outro_time]}

\* History of the calls: what was last set for (table, username, key).
Forget(tableName, u, k) ==
  [lastSet EXCEPT ![tableName] = {e \in @ : ~(e.username = u /\ e.key = k)}]
Remember(tableName, u, k, value) ==
  [lastSet EXCEPT ![tableName] =
     {e \in @ : ~(e.username = u /\ e.key = k)}
       \cup {[username |-> u, key |-> k, value |-> value]}]
LastSetOf(tableName, u, k) ==
  {e.value : e \in {x \in lastSet[tableName] : x.username = u /\ x.key = k}}

\* An INSERT for a username without a users row violates the foreign key:
\* the statement fails and the method throws.
SetPlayRecord(u, k, record) ==
  /\ HasUser(users, u)
  /\ play_records' = Upsert(play_records, PlayRecordRow(backend, u, k, record))
  /\ lastSet' = Remember("play_records", u, k, record)
  /\ UNCHANGED <<backend, others, now, userVars, favorites, skip_configs, searchVars,
                 otherTables, ret, lastPassword, listing>>

DeletePlayRecord(u, k) ==
  /\ play_records' = DeleteKey(play_records, u, k)
  /\ lastSet' = Forget("play_records", u, k)
  /\ UNCHANGED <<backend, others, now, userVars, favorites, skip_configs, searchVars,
                 otherTables, ret, lastPassword, listing>>

SetFavorite(u, k, favorite) ==
  /\ HasUser(users, u)
  /\ favorites' = Upsert(favorites, FavoriteRow(u, k, favorite))
  /\ lastSet' = Remember("favorites", u, k, favorite)
  /\ UNCHANGED <<backend, others, now, userVars, play_records, skip_configs, searchVars,
                 otherTables, ret, lastPassword, listing>>

DeleteFavorite(u, k) ==
  /\ favorites' = DeleteKey(favorites, u, k)
  /\ lastSet' = Forget("favorites", u, k)
  /\ UNCHANGED <<backend, others, now, userVars, play_records, skip_configs, searchVars,
                 otherTables, ret, lastPassword, listing>>

SetSkipConfig(u, source, id, config) ==
  /\ HasUser(users, u)
  /\ skip_configs' = Upsert(skip_configs, SkipConfigRow(u, source, id, config))
  /\ lastSet' = Remember("skip_configs", u, SkipKey(source, id), config)
  /\ UNCHANGED <<backend, others, now, userVars, play_records, favorites, searchVars,
                 otherTables, ret, lastPassword, listing>>

DeleteSkipConfig(u, source, id) ==
  /\ skip_configs' = DeleteKey(skip_configs, u, SkipKey(source, id))
  /\ lastSet' = Forget("skip_configs", u, SkipKey(source, id))
  /\ UNCHANGED <<backend, others, now, userVars, play_records, favorites, searchVars,
                 otherTables, ret, lastPassword, listing>>

\* ------------------------------------------------------------- Init
EmptyTables ==
  /\ play_records = {} /\ favorites = {} /\ skip_configs = {}
  /\ search_history = {} /\ nextSearchId = 1
  /\ danmaku_filter_configs = {} /\ notifications = {}
  /\ user_movie_requests = {} /\ favorite_check_times = {}
  /\ music_play_records = {} /\ music_playlists = {}
  /\ music_playlist_songs = {}
  /\ global_config = {}

OthersIdle ==
  /\ postgres_play_records = {}
  /\ tasks = <<>>
  /\ startingTaskIds = {}
  /\ startTaskCalls = {}
  /\ downloadingTasks = {}
  /\ audioTasks = {}
  /\ proxyRequests = {}
  /\ openListFiles = {}
  /\ reading = {}
  /\ updating = {}

NoHistory ==
  /\ ret = [op |-> "none"]
  /\ lastPassword = [u \in Usernames |-> [pw |-> -1, changed |-> FALSE]]
  /\ lastSet = [play_records |-> {}, favorites |-> {}, skip_configs |-> {}]
  /\ listing = [active |-> FALSE]

\* The store after the schema migration, before any request.
Init ==
  /\ backend \in Backends
  /\ now = 1
  /\ users = {}
  /\ userInfoCache = {}
  /\ EmptyTables
  /\ NoHistory
  /\ OthersIdle

\* ---------------------------------------------- Spec: accounts and login
BannedInputs ==
  {[fields |-> {"banned"}, role |-> "user", banned |-> b] : b \in BOOLEAN}

Next ==
  \/ \E u \in Usernames \ {USERNAME}, p \in Passwords : CreateUserV2(u, p, "user")
  \/ \E u \in Usernames, p \in Passwords : ChangePassword(u, p)
  \/ \E u \in Usernames, p \in Passwords : ChangePasswordV2(u, p)
  \/ \E u \in Usernames, h \in {hashPassword(p) : p \in Passwords} \cup {EmptyString} :
       SetUserPasswordHash(u, h)
  \/ \E u \in Usernames, upd \in BannedInputs : UpdateUserInfoV2(u, upd)
  \/ \E u \in Usernames : DeleteUser(u)
  \/ \E u \in Usernames : DeleteUserV2(u)
  \/ GetUserInfoV2(USERNAME)
  \/ InitPostgres

Spec == Init /\ [][Next]_vars

\* ------------------------------------------- SpecInfo: roles and the cache
RoleInputs ==
  {[fields |-> {"role"}, role |-> r, banned |-> FALSE] : r \in Roles}
    \cup {[fields |-> {"role", "banned"}, role |-> "user", banned |-> TRUE]}
    \cup {[fields |-> {}, role |-> "user", banned |-> FALSE]}

NextInfo ==
  \/ \E u \in Usernames \ {USERNAME}, r \in Roles : CreateUserV2(u, PASSWORD, r)
  \/ \E u \in Usernames, upd \in RoleInputs : UpdateUserInfoV2(u, upd)
  \/ \E u \in Usernames : DeleteUser(u)
  \/ \E u \in Usernames : DeleteUserV2(u)
  \/ \E u \in Usernames : GetUserInfoV2(u)
  \/ InitPostgres

SpecInfo == Init /\ [][NextInfo]_vars

\* ------------------------------------ SpecMigrate: the migrated flags
\* A users row written before the flags existed or outside the storage
\* classes holds the schema default (INTEGER DEFAULT 0) in all three.
LegacyUserRow(u, migrated) ==
  [NewUserRow(u, hashPassword(PASSWORD), IF u = USERNAME THEN "owner" ELSE "user", 0, 1)
     EXCEPT !.playrecord_migrated = migrated, !.favorite_migrated = migrated,
            !.skip_migrated = migrated]

InitMigrate ==
  /\ backend \in Backends
  /\ now = 1
  /\ \E S \in SUBSET Usernames, f \in [Usernames -> {0, 1}] :
       /\ users = {LegacyUserRow(u, f[u]) : u \in S}
       /\ lastPassword = [u \in Usernames |->
                          [pw |-> IF u \in S THEN PASSWORD ELSE -1, changed |-> u \in S]]
  /\ userInfoCache = {}
  /\ EmptyTables
  /\ ret = [op |-> "none"]
  /\ lastSet = [play_records |-> {}, favorites |-> {}, skip_configs |-> {}]
  /\ listing = [active |-> FALSE]
  /\ OthersIdle

Emails == {<<"email", 1>>}

NextMigrate ==
  \/ \E u \in Usernames : MigratePlayRecords(u)
  \/ \E u \in Usernames : MigrateFavorites(u)
  \/ \E u \in Usernames : MigrateSkipConfigs(u)
  \/ \E u \in Usernames, upd \in BannedInputs : UpdateUserInfoV2(u, upd)
  \/ \E u \in Usernames : ChangePassword(u, PASSWORD)
  \/ \E u \in Usernames, e \in Emails : SetUserEmail(u, e)

SpecMigrate == InitMigrate /\ [][NextMigrate]_vars

\* ------------------------------ SpecKV: set / get / delete by (username, key)
PlayRecordInputs ==
  [play_time : {1, 2}, save_time : {1}, new_episodes : {{}, {1}}]
FavoriteInputs ==
  [save_time : {1}, origin : {{}, {"vod"}}, is_completed : BOOLEAN]
SkipConfigInputs ==
  [enable : BOOLEAN, intro_time : {0, 1}, outro_time : {0}]
Sources == {<<"s">>}
Ids == {<<k>> : k \in Keys}

\* Every user but the site owner has registered; the owner has no row yet.
RegisteredUsers ==
  {NewUserRow(u, hashPassword(PASSWORD), "user", 0, 1) : u \in Usernames \ {USERNAME}}

InitKV ==
  /\ backend \in Backends
  /\ now = 1
  /\ users = RegisteredUsers
  /\ userInfoCache = {}
  /\ EmptyTables
  /\ NoHistory
  /\ OthersIdle

NextKV ==
  \/ \E u \in Usernames, k \in Keys, r \in PlayRecordInputs : SetPlayRecord(u, k, r)
  \/ \E u \in Usernames, k \in Keys : DeletePlayRecord(u, k)
  \/ \E u \in Usernames, k \in Keys, f \in FavoriteInputs : SetFavorite(u, k, f)
  \/ \E u \in Usernames, k \in Keys : DeleteFavorite(u, k)
  \/ \E u \in Usernames, src \in Sources, id \in Ids, c \in SkipConfigInputs :
       SetSkipConfig(u, src, id, c)
  \/ \E u \in Usernames, src \in Sources, id \in Ids : DeleteSkipConfig(u, src, id)

SpecKV == InitKV /\ [][NextKV]_vars

\* ------------------------------ SpecCascade: deleting a user and its rows
\* The tables of the schema that hold a username column.
PerUserTables ==
  {"play_records", "favorites", "search_history", "skip_configs",
   "danmaku_filter_configs", "notifications", "user_movie_requests",
   "favorite_check_times", "music_play_records", "music_playlists"}

\* Rows of each table as the schema shapes them (primary key and owner).
RowsOf(tableName, bk, u) ==
  CASE tableName = "play_records" ->
         {PlayRecordRow(bk, u, k, [play_time |-> 1, save_time |-> 1, new_episodes |-> {}]) :
            k \in Keys}
    [] tableName = "favorites" ->
         {FavoriteRow(u, k, [save_time |-> 1, origin |-> {}, is_completed |-> FALSE]) :
            k \in Keys}
    [] tableName = "skip_configs" ->
         {SkipConfigRow(u, <<"s">>, <<k>>,
                        [enable |-> TRUE, intro_time |-> 1, outro_time |-> 0]) : k \in Keys}
    [] tableName = "search_history" ->
         {[id |-> u * MaxKey + k, username |-> u, keyword |-> k, timestamp |-> 1] :
            k \in Keys}
    [] tableName = "danmaku_filter_configs" -> {[username |-> u, rules |-> <<>>]}
    [] tableName = "notifications" ->
         {[id |-> <<u, k>>, username |-> u, read |-> 0] : k \in Keys}
    [] tableName = "user_movie_requests" ->
         {[username |-> u, request_id |-> k] : k \in Keys}
    [] tableName = "favorite_check_times" -> {[username |-> u, last_check_time |-> 1]}
    [] tableName = "music_play_records" -> {[username |-> u, key |-> k] : k \in Keys}
    [] tableName = "music_playlists" -> {[id |-> <<u, k>>, username |-> u] : k \in Keys}
    [] tableName = "music_playlist_songs" ->
         {[playlist_id |-> <<u, k>>, song_id |-> 1] : k \in Keys}

Populated(tableName, filled) ==
  IF tableName \in filled
  THEN UNION {RowsOf(tableName, backend, u) : u \in Usernames}
  ELSE {}

\* Every user is registered; each table is either empty or holds rows of
\* every user (songs only in playlists that exist).
InitCascade ==
  /\ backend \in Backends
  /\ now = 1
  /\ users = {NewUserRow(u, hashPassword(PASSWORD),
                         IF u = USERNAME THEN "owner" ELSE "user", 0, 1) : u \in Usernames}
  /\ userInfoCache = {}
  /\ \E filled \in SUBSET PerUserTables :
       /\ play_records = Populated("play_records", filled)
       /\ favorites = Populated("favorites", filled)
       /\ skip_configs = Populated("skip_configs", filled)
       /\ search_history = Populated("search_history", filled)
       /\ danmaku_filter_configs = Populated("danmaku_filter_configs", filled)
       /\ notifications = Populated("notifications", filled)
       /\ user_movie_requests = Populated("user_movie_requests", filled)
       /\ favorite_check_times = Populated("favorite_check_times", filled)
       /\ music_play_records = Populated("music_play_records", filled)
       /\ music_playlists = Populated("music_playlists", filled)
       /\ music_playlist_songs =
            IF "music_playlists" \in filled
            THEN UNION {RowsOf("music_playlist_songs", backend, u) : u \in Usernames}
            ELSE {}
  /\ global_config = {}
  /\ nextSearchId = (MaxUser + 1) * MaxKey + 1
  /\ NoHistory
  /\ OthersIdle

NextCascade ==
  \/ \E u \in Usernames : DeleteUser(u)
  \/ \E u \in Usernames : DeleteUserV2(u)

SpecCascade == InitCascade /\ [][NextCascade]_vars

\* ------------------------------------------ SpecList: paging the user list
MaxListUser == 2    \* usernames of SpecList: the owner and 1..MaxListUser
MaxLimit == 2       \* page sizes 1..MaxLimit

ListUsernames == 0 .. MaxListUser
Limits == 1 .. MaxLimit

Min(a, b) == IF a <= b THEN a ELSE b

\* SELECT ... FROM users ORDER BY created_at DESC: every order of the rows
\* with non-increasing created_at. The statement names no further sort key,
\* so each execution may return rows of equal created_at in any order.
RECURSIVE OrderByCreatedAtDesc(_)
OrderByCreatedAtDesc(tbl) ==
  IF tbl = {} THEN {<<>>}
  ELSE UNION {{<<r>> \o rest : rest \in OrderByCreatedAtDesc(tbl \ {r})} :
              r \in {x \in tbl : \A y \in tbl : x.created_at >= y.created_at}}

\* LIMIT ? OFFSET ?
LimitOffset(rows, limit, offset) ==
  SubSeq(rows, offset + 1, Min(offset + limit, Len(rows)))

IsNull(info) == "null" \in DOMAIN info

\* ownerInDatabase = !!ownerInfo && ownerInfo.created_at !== 0
OwnerInDatabase(ownerInfo) ==
  IF IsNull(ownerInfo) THEN FALSE ELSE ownerInfo.created_at # 0

ActualLimit(offset, limit, ownerInDatabase) ==
  IF ~ownerInDatabase /\ offset = 0 THEN limit - 1 ELSE limit

ActualOffset(offset, ownerInDatabase) ==
  IF ~ownerInDatabase /\ offset # 0 THEN offset - 1 ELSE offset

\* A result loop that pushes every row, the owner's included.
SkipsOwnerNever(ownerUsername, user) == FALSE

\* if (ownerUsername && user.username === ownerUsername) continue;
SkipsOwner(ownerUsername, user) == user.username = ownerUsername

\* The entry pushed first on the first page.
OwnerEntry(ownerUsername, ownerInfo) ==
  [username |-> ownerUsername, role |-> "owner",
   banned |-> IF IsNull(ownerInfo) THEN FALSE ELSE ownerInfo.banned,
   created_at |-> IF IsNull(ownerInfo) THEN 0 ELSE ownerInfo.created_at]

UserEntry(user) ==
  [username |-> user.username, role |-> user.role, banned |-> (user.banned = 1),
   created_at |-> user.created_at]

\* for (const user of result.results) { ... users.push(...) }
RECURSIVE OtherUsers(_, _)
OtherUsers(ownerUsername, rows) ==
  IF rows = <<>> THEN <<>>
  ELSE IF SkipsOwner(ownerUsername, Head(rows))
       THEN OtherUsers(ownerUsername, Tail(rows))
       ELSE <<UserEntry(Head(rows))>> \o OtherUsers(ownerUsername, Tail(rows))

\* getUserListV2(offset, limit, ownerUsername); the caller says what becomes
\* of listing.
GetUserListV2(offset, limit, ownerUsername) ==
  LET count == Cardinality(users)
      r == getUserInfoV2(backend, users, userInfoCache, now, ownerUsername)
      ownerInDatabase == OwnerInDatabase(r.info)
      total == IF ownerInDatabase THEN count ELSE count + 1
  IN  \E order \in OrderByCreatedAtDesc(r.users) :
        LET result == LimitOffset(order, ActualLimit(offset, limit, ownerInDatabase),
                                  ActualOffset(offset, ownerInDatabase))
            first == IF offset = 0 THEN <<OwnerEntry(ownerUsername, r.info)>> ELSE <<>>
        IN  /\ users' = r.users
            /\ userInfoCache' = r.cache
            /\ ret' = [op |-> "getUserListV2", offset |-> offset, limit |-> limit,
                       users |-> first \o OtherUsers(ownerUsername, result),
                       total |-> total]
            /\ UNCHANGED <<backend, others, now, tableVars, lastPassword, lastSet>>

\* A client that pages through the list: offset 0, limit, 2 * limit, ...
StartListing(limit) ==
  /\ ~listing.active
  /\ listing' = [active |-> TRUE, limit |-> limit, page |-> 0, seen |-> <<>>,
                 done |-> FALSE]
  /\ UNCHANGED <<backend, others, now, userVars, tableVars, ret, lastPassword, lastSet>>

\* The next page; the listing is done once the offsets have passed every
\* stored row and the owner.
ListPage ==
  /\ listing.active /\ ~listing.done
  /\ GetUserListV2(listing.page * listing.limit, listing.limit, USERNAME)
  /\ listing' = [listing EXCEPT
       !.page = @ + 1,
       !.seen = @ \o [i \in 1 .. Len(ret'.users) |-> ret'.users[i].username],
       !.done = (listing.page + 1) * listing.limit > Cardinality(users') + 1]

InitList ==
  /\ backend \in Backends
  /\ now = 1
  /\ users = {}
  /\ userInfoCache = {}
  /\ EmptyTables
  /\ ret = [op |-> "none"]
  /\ lastPassword = [u \in ListUsernames |-> [pw |-> -1, changed |-> FALSE]]
  /\ lastSet = [play_records |-> {}, favorites |-> {}, skip_configs |-> {}]
  /\ listing = [active |-> FALSE]
  /\ OthersIdle

\* The store is built first (users imported with their created_at, the
\* owner looked up or deleted), then paged through while it is fixed.
NextList ==
  \/ /\ ~listing.active
     /\ \/ \E u \in ListUsernames, c \in 0 .. MaxTime :
             CreateUserWithHashedPassword(u, hashPassword(PASSWORD),
               IF u = USERNAME THEN "owner" ELSE "user", c, FALSE)
        \/ GetUserInfoV2(USERNAME)
        \/ DeleteUser(USERNAME)
  \/ \E limit \in Limits : StartListing(limit)
  \/ ListPage

SpecList == InitList /\ [][NextList]_vars

\* ------------------------------- SpecCleanup: pruning old play records
\* parseInt(process.env.MAX_PLAY_RECORDS_PER_USER || '100', 10), scaled down
MAX_PLAY_RECORDS_PER_USER == 2
\* const threshold = maxRecords + 10
Grace == 10

\* Keys enough to pass the threshold by two.
RecordKeys == 1 .. (MAX_PLAY_RECORDS_PER_USER + Grace + 2)

\* A threshold that is one too high.
ThresholdOneMore(maxRecords) == maxRecords + Grace + 1

Threshold(maxRecords) == maxRecords + Grace

\* SELECT key FROM play_records WHERE username = ? ORDER BY save_time DESC
\* LIMIT n: every set of n rows (all of them if there are fewer) that no
\* row outside it is newer than; rows of equal save_time may fall on
\* either side of the limit.
RECURSIVE KSubsets(_, _)
KSubsets(S, k) ==
  IF k = 0 THEN {{}}
  ELSE IF Cardinality(S) < k THEN {}
  ELSE LET x == CHOOSE y \in S : TRUE
       IN  {{x} \cup T : T \in KSubsets(S \ {x}, k - 1)} \cup KSubsets(S \ {x}, k)

TopBySaveTime(rows, n) ==
  IF Cardinality(rows) <= n THEN {rows}
  ELSE IF n = 0 THEN {{}}
  ELSE LET Newer(t) == {r \in rows : r.save_time > t}
           cut == CHOOSE t \in {r.save_time : r \in rows} :
                    /\ Cardinality(Newer(t)) < n
                    /\ Cardinality({r \in rows : r.save_time >= t}) >= n
       IN  {Newer(cut) \cup ties :
              ties \in KSubsets({r \in rows : r.save_time = cut},
                                n - Cardinality(Newer(cut)))}

CleanupOldPlayRecords(userName) ==
  LET maxRecords == MAX_PLAY_RECORDS_PER_USER
      mine == {r \in play_records : r.username = userName}
      count == Cardinality(mine)
  IN  /\ IF count <= Threshold(maxRecords)
         THEN play_records' = play_records
         ELSE \E top \in TopBySaveTime(mine, maxRecords) :
                play_records' =
                  {r \in play_records :
                     ~(r.username = userName /\ r.key \notin {t.key : t \in top})}
      /\ ret' = [op |-> "cleanupOldPlayRecords", userName |-> userName,
                 count |-> count]
      /\ UNCHANGED <<backend, others, now, userVars, favorites, skip_configs, searchVars,
                     otherTables, histVars>>

\* How the save_time of the stored records runs over the keys.
SaveTimePatterns == {"ascending", "descending", "equal", "pairs", "cycle"}

SaveTimeOf(pattern, k, n) ==
  CASE pattern = "ascending" -> k
    [] pattern = "descending" -> n + 1 - k
    [] pattern = "equal" -> 1
    [] pattern = "pairs" -> (k + 1) \div 2
    [] pattern = "cycle" -> 1 + (k % 3)

\* Every user is registered and has saved some records.
InitCleanup ==
  /\ backend \in Backends
  /\ now = 1
  /\ users = {NewUserRow(u, hashPassword(PASSWORD),
                         IF u = USERNAME THEN "owner" ELSE "user", 0, 1) : u \in Usernames}
  /\ userInfoCache = {}
  /\ \E n \in {0} \cup RecordKeys, m \in 0 .. 1, pattern \in SaveTimePatterns :
       play_records =
         {PlayRecordRow(backend, MaxUser, k,
                        [play_time |-> 1, save_time |-> SaveTimeOf(pattern, k, n),
                         new_episodes |-> {}]) : k \in 1 .. n}
         \cup {PlayRecordRow(backend, USERNAME, k,
                             [play_time |-> 1, save_time |-> 1, new_episodes |-> {}]) :
                 k \in 1 .. m}
  /\ favorites = {} /\ skip_configs = {}
  /\ search_history = {} /\ nextSearchId = 1
  /\ danmaku_filter_configs = {} /\ notifications = {}
  /\ user_movie_requests = {} /\ favorite_check_times = {}
  /\ music_play_records = {} /\ music_playlists = {}
  /\ music_playlist_songs = {}
  /\ global_config = {}
  /\ NoHistory
  /\ OthersIdle

NextCleanup ==
  \/ \E u \in Usernames : CleanupOldPlayRecords(u)
  \/ \E k \in {1, MAX_PLAY_RECORDS_PER_USER + Grace + 1} :
       SetPlayRecord(MaxUser, k,
                     [play_time |-> 2, save_time |-> MAX_PLAY_RECORDS_PER_USER + Grace + 3,
                      new_episodes |-> {}])
  \/ DeletePlayRecord(MaxUser, 2)

SpecCleanup == InitCleanup /\ [][NextCleanup]_vars

\* ------------------------------------------- SpecSearch: search history
\* LIMIT 20 / if (count > 20)
HistoryLimit == 20
MaxNewKeywords == 2     \* rows inserted beyond the first HistoryLimit ids

\* Date.now() advances between calls, or not: two calls within the same
\* millisecond read the same value.
Tick ==
  /\ now < MaxTime
  /\ now' = now + 1
  /\ UNCHANGED <<backend, others, userVars, tableVars, ret, histVars>>

SearchHistoryOf(tbl, u) == {r \in tbl : r.username = u}

\* SELECT ... ORDER BY timestamp DESC: every order of the rows with
\* non-increasing timestamp.
RECURSIVE OrderByTimestampDesc(_)
OrderByTimestampDesc(rows) ==
  IF rows = {} THEN {<<>>}
  ELSE UNION {{<<r>> \o rest : rest \in OrderByTimestampDesc(rows \ {r})} :
              r \in {x \in rows : \A y \in rows : x.timestamp >= y.timestamp}}

\* SELECT id ... ORDER BY timestamp DESC LIMIT n, as a set of rows
TopByTimestamp(rows, n) ==
  IF Cardinality(rows) <= n THEN {rows}
  ELSE LET Newer(t) == {r \in rows : r.timestamp > t}
           cut == CHOOSE t \in {r.timestamp : r \in rows} :
                    /\ Cardinality(Newer(t)) < n
                    /\ Cardinality({r \in rows : r.timestamp >= t}) >= n
       IN  {Newer(cut) \cup ties :
              ties \in KSubsets({r \in rows : r.timestamp = cut},
                                n - Cardinality(Newer(cut)))}

\* getSearchHistory: the keyword lists the SELECT may return.
getSearchHistory(tbl, userName) ==
  {[i \in 1 .. Min(HistoryLimit, Len(rows)) |-> rows[i].keyword] :
     rows \in OrderByTimestampDesc(SearchHistoryOf(tbl, userName))}

GetSearchHistory(userName) ==
  /\ \E result \in getSearchHistory(search_history, userName) :
       ret' = [op |-> "getSearchHistory", userName |-> userName, value |-> result]
  /\ UNCHANGED <<backend, others, now, userVars, tableVars, histVars>>

\* INSERT ... ON CONFLICT(username, keyword) DO UPDATE SET timestamp
UpsertKeyword(tbl, id, userName, keyword, timestamp) ==
  IF \E r \in tbl : r.username = userName /\ r.keyword = keyword
  THEN {IF r.username = userName /\ r.keyword = keyword
        THEN [r EXCEPT !.timestamp = timestamp] ELSE r : r \in tbl}
  ELSE tbl \cup {[id |-> id, username |-> userName, keyword |-> keyword,
                  timestamp |-> timestamp]}

AddSearchHistory(userName, keyword) ==
  /\ HasUser(users, userName)
  /\ LET timestamp == now
         upserted == UpsertKeyword(search_history, nextSearchId, userName, keyword,
                                   timestamp)
         mine == SearchHistoryOf(upserted, userName)
         count == Cardinality(mine)
     IN  /\ nextSearchId' = IF upserted \subseteq search_history \/
                                Cardinality(upserted) = Cardinality(search_history)
                             THEN nextSearchId ELSE nextSearchId + 1
         /\ IF count > HistoryLimit
            THEN \E top \in TopByTimestamp(mine, HistoryLimit) :
                   search_history' =
                     {r \in upserted :
                        ~(r.username = userName /\ r.id \notin {t.id : t \in top})}
            ELSE search_history' = upserted
  /\ ret' = [op |-> "addSearchHistory", userName |-> userName, keyword |-> keyword]
  /\ UNCHANGED <<backend, others, now, userVars, kvVars, otherTables, histVars>>

\* How the timestamps of the stored keywords (all in the past) run.
TimestampPatterns == {"distinct", "oldestTie", "newestTie"}

TimestampOf(pattern, k, n) ==
  CASE pattern = "distinct" -> k - n
    [] pattern = "oldestTie" -> IF k = 1 /\ n >= 2 THEN 2 - n ELSE k - n
    [] pattern = "newestTie" -> IF k = n THEN 0 - 1 ELSE k - n

\* The keywords searched for: the oldest stored one and two new ones.
SearchKeywords == {1, HistoryLimit + 1, HistoryLimit + 2}

InitSearch ==
  /\ backend \in Backends
  /\ now = 1
  /\ users = {NewUserRow(u, hashPassword(PASSWORD),
                         IF u = USERNAME THEN "owner" ELSE "user", 0, 1) : u \in Usernames}
  /\ userInfoCache = {}
  /\ play_records = {} /\ favorites = {} /\ skip_configs = {}
  /\ \E n \in 0 .. HistoryLimit, pattern \in TimestampPatterns :
       /\ search_history =
            {[id |-> k, username |-> MaxUser, keyword |-> k,
              timestamp |-> TimestampOf(pattern, k, n)] : k \in 1 .. n}
       /\ nextSearchId = n + 1
  /\ danmaku_filter_configs = {} /\ notifications = {}
  /\ user_movie_requests = {} /\ favorite_check_times = {}
  /\ music_play_records = {} /\ music_playlists = {}
  /\ music_playlist_songs = {}
  /\ global_config = {}
  /\ NoHistory
  /\ OthersIdle

NextSearch ==
  \/ /\ nextSearchId <= HistoryLimit + MaxNewKeywords
     /\ \E kw \in SearchKeywords : AddSearchHistory(MaxUser, kw)
  \/ GetSearchHistory(MaxUser)
  \/ Tick

SpecSearch == InitSearch /\ [][NextSearch]_vars

\* ----------------------------- SpecTokens: refresh tokens in global_config
MaxToken == 2       \* token ids 1..MaxToken

TokenIds == 1 .. MaxToken
TokenValues == {"device-a", "device-b"}

\* Strings are sequences of pieces; `${a}:${b}` is a \o <<":">> \o b.
\* The hash key of the refresh tokens of a user: 'user_tokens:' + username
UserTokensKey(u) == <<"user_tokens", ":", ToString(u)>>
Field(tokenId) == <<ToString(tokenId)>>

\* s.startsWith(prefix)
StartsWith(key, prefix) ==
  Len(key) >= Len(prefix) /\ SubSeq(key, 1, Len(prefix)) = prefix

\* hSet: INSERT INTO global_config ... ON CONFLICT(key) DO UPDATE
HSet(hashKey, field, value) ==
  LET key == hashKey \o <<":">> \o field
  IN  /\ global_config' = {r \in global_config : r.key # key}
                            \cup {[key |-> key, value |-> value, updated_at |-> now]}
      /\ UNCHANGED <<backend, others, now, userVars, kvVars, searchVars,
                     danmaku_filter_configs, notifications, user_movie_requests,
                     favorite_check_times, music_play_records, music_playlists,
                     music_playlist_songs, ret, histVars>>

\* The comparison of two characters by LIKE: SQLite (D1) ignores the case
\* of ASCII letters, Postgres does not.
Fold(c) == IF backend = "d1" /\ c = "A" THEN "a" ELSE c

\* str LIKE pattern, '_' standing for any one character and '%' for any
\* run of characters; a piece of more than one character stands for itself
RECURSIVE Like(_, _)
Like(str, pattern) ==
  IF pattern = <<>> THEN str = <<>>
  ELSE IF Head(pattern) = "%"
  THEN Like(str, Tail(pattern)) \/ (str # <<>> /\ Like(Tail(str), pattern))
  ELSE /\ str # <<>>
       /\ (Head(pattern) = "_" \/ Fold(Head(pattern)) = Fold(Head(str)))
       /\ Like(Tail(str), Tail(pattern))

\* hGetAll: the object field -> value built from the rows with
\* key LIKE `${hashKey}:%`, field being fullKey.substring(prefix.length);
\* as the set of its entries (two rows that give the same field are both
\* listed: which of them the object keeps depends on the row order)
hGetAll(tbl, hashKey) ==
  LET prefix == hashKey \o <<":">>
  IN  {[field |-> SubSeq(r.key, Len(prefix) + 1, Len(r.key)), value |-> r.value] :
         r \in {x \in tbl : Like(x.key, prefix \o <<"%">>)}}

\* hDel: DELETE FROM global_config WHERE key = ?
HDel(hashKey, field) ==
  /\ global_config' = {r \in global_config : r.key # hashKey \o <<":">> \o field}
  /\ UNCHANGED <<backend, others, now, userVars, kvVars, searchVars,
                 danmaku_filter_configs, notifications, user_movie_requests,
                 favorite_check_times, music_play_records, music_playlists,
                 music_playlist_songs, ret, histVars>>

\* del: DELETE FROM global_config WHERE key LIKE `${hashKey}:%`
Del(hashKey) ==
  /\ global_config' = {r \in global_config : ~Like(r.key, hashKey \o <<":", "%">>)}
  /\ UNCHANGED <<backend, others, now, userVars, kvVars, searchVars,
                 danmaku_filter_configs, notifications, user_movie_requests,
                 favorite_check_times, music_play_records, music_playlists,
                 music_playlist_songs, ret, histVars>>

\* Every user is registered; no device has logged in yet.
InitTokens ==
  /\ backend \in Backends
  /\ now = 1
  /\ users = {NewUserRow(u, hashPassword(PASSWORD),
                         IF u = USERNAME THEN "owner" ELSE "user", 0, 1) : u \in Usernames}
  /\ userInfoCache = {}
  /\ EmptyTables
  /\ NoHistory
  /\ OthersIdle

NextTokens ==
  \/ \E u \in Usernames, t \in TokenIds, v \in TokenValues :
       HSet(UserTokensKey(u), Field(t), v)
  \/ \E u \in Usernames, t \in TokenIds : HDel(UserTokensKey(u), Field(t))
  \/ \E u \in Usernames : Del(UserTokensKey(u))
  \/ \E u \in Usernames : DeleteUser(u)
  \/ \E u \in Usernames : DeleteUserV2(u)

SpecTokens == InitTokens /\ [][NextTokens]_vars

\* ------------- SpecRefine: D1Storage and PostgresStorage side by side
\* getAllPlayRecords: the object key -> record built from
\* SELECT * FROM play_records WHERE username = ?, as a set of entries
getAllPlayRecords(bk, tbl, u) ==
  {[key |-> r.key, record |-> rowToPlayRecord(bk, r)] :
     r \in {x \in tbl : x.username = u}}

\* The same setPlayRecord call on both storages.
BothSetPlayRecord(u, k, record) ==
  /\ HasUser(users, u)
  /\ play_records' = Upsert(play_records, PlayRecordRow("d1", u, k, record))
  /\ postgres_play_records' =
       Upsert(postgres_play_records, PlayRecordRow("postgres", u, k, record))
  /\ ret' = [op |-> "setPlayRecord", username |-> u, key |-> k]
  /\ UNCHANGED <<tasks, startingTaskIds, startTaskCalls, downloadingTasks, audioTasks,
                 proxyRequests, openListFiles,
                 reading, updating>>
  /\ UNCHANGED <<backend, now, userVars, favorites, skip_configs, searchVars,
                 otherTables, histVars>>

\* The same deletePlayRecord call on both storages.
BothDeletePlayRecord(u, k) ==
  /\ play_records' = DeleteKey(play_records, u, k)
  /\ postgres_play_records' = DeleteKey(postgres_play_records, u, k)
  /\ ret' = [op |-> "deletePlayRecord", username |-> u, key |-> k]
  /\ UNCHANGED <<tasks, startingTaskIds, startTaskCalls, downloadingTasks, audioTasks,
                 proxyRequests, openListFiles,
                 reading, updating>>
  /\ UNCHANGED <<backend, now, userVars, favorites, skip_configs, searchVars,
                 otherTables, histVars>>

\* Both databases hold the same registered users and no play record.
InitRefine ==
  /\ backend = "d1"
  /\ now = 1
  /\ users = {NewUserRow(u, hashPassword(PASSWORD),
                         IF u = USERNAME THEN "owner" ELSE "user", 0, 1) : u \in Usernames}
  /\ userInfoCache = {}
  /\ EmptyTables
  /\ NoHistory
  /\ OthersIdle

NextRefine ==
  \/ \E u \in Usernames, k \in Keys, record \in PlayRecordInputs :
       BothSetPlayRecord(u, k, record)
  \/ \E u \in Usernames, k \in Keys : BothDeletePlayRecord(u, k)

SpecRefine == InitRefine /\ [][NextRefine]_vars





\* ------------------------------ SpecMiddleware: middleware(request)
ACCESS_TOKEN_AGE == 1     \* TOKEN_CONFIG.ACCESS_TOKEN_AGE, in clock units

\* pathnames, as sequences of pieces: '/api/favorites' is
\* <<"/", "api", "/", "favorites">>
Pathnames ==
  {<<"/", "api", "/", "favorites">>, <<"/", "api", "docs">>, <<"/", "play">>,
   <<"/", "_next", "/", "data">>, <<"/", "warning">>, <<"/", "api", "/", "login">>}

\* config.matcher: every path but those that continue, after the first '/',
\* with one of the listed alternatives
MatcherExcluded ==
  {<<"_next", "/", "static">>, <<"_next", "/", "image">>, <<"favicon.ico">>,
   <<"login">>, <<"register">>, <<"oidc-register">>, <<"warning">>,
   <<"api", "/", "login">>, <<"api", "/", "register">>, <<"api", "/", "logout">>,
   <<"api", "/", "auth", "/", "oidc">>, <<"api", "/", "auth", "/", "refresh">>,
   <<"api", "/", "cron", "/">>, <<"api", "/", "server-config">>,
   <<"api", "/", "proxy-m3u8">>, <<"api", "/", "cms-proxy">>,
   <<"api", "/", "tvbox", "/", "subscribe">>, <<"api", "/", "theme", "/", "css">>,
   <<"api", "/", "openlist", "/", "cms-proxy">>, <<"api", "/", "openlist", "/", "play">>,
   <<"api", "/", "emby", "/", "cms-proxy">>, <<"api", "/", "emby", "/", "play">>,
   <<"api", "/", "emby", "/", "sources">>, <<"tvbox", "/">>}

Matcher(pathname) ==
  /\ Head(pathname) = "/"
  /\ ~\E x \in MatcherExcluded : StartsWith(Tail(pathname), x)

shouldSkipAuth(pathname) ==
  \E path \in {<<"/", "_next">>, <<"/", "favicon.ico">>, <<"/", "robots.txt">>,
               <<"/", "manifest.json">>, <<"/", "icons", "/">>, <<"/", "logo.png">>,
               <<"/", "screenshot.png">>} : StartsWith(pathname, path)

IsApi(pathname) == StartsWith(pathname, <<"/", "api">>)

\* HMAC-SHA-256 of JSON.stringify({username, role, timestamp}) under secret,
\* as an injective tagging of its arguments
Hmac(username, role, timestamp, secret) ==
  <<"hmac-sha256", username, role, timestamp, secret>>

\* A signature string of the cookie: hex digits in either case.
HexEncode(bytes, case) == [case |-> case, bytes |-> bytes]
\* signature.match(/.{1,2}/g).map((byte) => parseInt(byte, 16))
HexDecode(signature) == signature.bytes

\* crypto.subtle.verify('HMAC', key, signatureBuffer, messageData)
verifySignatureAny(username, role, timestamp, signature, secret) == TRUE

verifySignature(username, role, timestamp, signature, secret) ==
  HexDecode(signature) = Hmac(username, role, timestamp, secret)

\* !x for an optional string and an optional number
FalsyString(x) == x = {} \/ x = {EmptyString}
FalsyNumber(x) == x = {} \/ x = {0}
The(x) == CHOOSE v \in x : TRUE

Next_ == [kind |-> "next", status |-> 200, body |-> "", to |-> ""]
Redirect(to) == [kind |-> "redirect", status |-> 307, body |-> "", to |-> to]
Unauthorized401(body) == [kind |-> "response", status |-> 401, body |-> body, to |-> ""]

\* An auth failure that redirects API requests to the login page too.
handleAuthFailureRedirect(pathname) == Redirect("/login")

handleAuthFailure(pathname) ==
  IF IsApi(pathname) THEN Unauthorized401("Unauthorized") ELSE Redirect("/login")

\* middleware(request): envPassword is process.env.PASSWORD, authInfo the
\* result of getAuthInfoFromCookie (the empty set for null), t is Date.now()
middleware(pathname, storageType, envPassword, authInfo, t) ==
  IF shouldSkipAuth(pathname) THEN Next_
  ELSE IF envPassword = {}
  THEN IF pathname = <<"/", "warning">> THEN Next_ ELSE Redirect("/warning")
  ELSE IF authInfo = {} THEN handleAuthFailure(pathname)
  ELSE LET a == The(authInfo) IN
  IF storageType = "localstorage"
  THEN IF a.password = {} \/ a.password # envPassword
       THEN handleAuthFailure(pathname) ELSE Next_
  ELSE IF FalsyString(a.username) \/ FalsyString(a.role) \/ a.signature = {}
          \/ FalsyNumber(a.timestamp)
  THEN handleAuthFailure(pathname)
  ELSE IF FalsyString(a.tokenId) \/ FalsyString(a.refreshToken)
          \/ FalsyNumber(a.refreshExpires)
  THEN handleAuthFailure(pathname)
  ELSE LET age == t - The(a.timestamp) IN
  IF t >= The(a.refreshExpires) THEN handleAuthFailure(pathname)
  ELSE IF age > ACCESS_TOKEN_AGE /\ IsApi(pathname)
  THEN Unauthorized401("Access token expired")
  ELSE IF ~verifySignature(The(a.username), The(a.role), The(a.timestamp),
                           The(a.signature), The(envPassword))
  THEN handleAuthFailure(pathname)
  ELSE Next_

\* the cookies a client may send
OptString(s) == {{}, {EmptyString}, {s}}
Timestamps == {{}, {0}, {1}, {2}}
Expiries == {{}, {0}, {2}, {MaxTime + 2}}
Signatures ==
  {{}} \cup
  {{HexEncode(Hmac(<<"alice">>, <<"user">>, ts, PASSWORD), "lower")} : ts \in {1, 2}}
  \cup {{HexEncode(Hmac(<<"alice">>, <<"user">>, 1, PASSWORD), "upper")},
        {HexEncode(Hmac(<<"alice">>, <<"owner">>, 1, PASSWORD), "lower")},
        {HexEncode(Hmac(<<"alice">>, <<"owner">>, 1, PASSWORD + 1), "lower")}}
AuthInfos ==
  [username : OptString(<<"alice">>), role : {{}, {<<"user">>}, {<<"owner">>}},
   signature : Signatures, timestamp : Timestamps,
   tokenId : {{}, {<<"t1">>}}, refreshToken : {{}, {<<"r1">>}},
   refreshExpires : Expiries, password : {{}, {PASSWORD}}]

Requests ==
  [op : {"request"}, pathname : {p \in Pathnames : Matcher(p)},
   storageType : {"localstorage", "d1"}, PASSWORD : {{}, {PASSWORD}},
   authInfo : {{}} \cup {{a} : a \in AuthInfos}]

\* The matcher hands a request to the middleware.
Middleware ==
  /\ ret.op = "request"
  /\ ret' = [ret EXCEPT !.op = "middleware"] @@
            [now |-> now,
             response |-> middleware(ret.pathname, ret.storageType, ret.PASSWORD,
                                     ret.authInfo, now)]
  /\ UNCHANGED <<backend, others, now, userVars, tableVars, histVars>>

InitMiddleware ==
  /\ backend = "d1"
  /\ now \in 1 .. MaxTime + 1
  /\ users = {}
  /\ userInfoCache = {}
  /\ EmptyTables
  /\ ret \in Requests
  /\ lastPassword = [u \in Usernames |-> [pw |-> -1, changed |-> FALSE]]
  /\ lastSet = [play_records |-> {}, favorites |-> {}, skip_configs |-> {}]
  /\ listing = [active |-> FALSE]
  /\ OthersIdle

NextMiddleware == Middleware

SpecMiddleware == InitMiddleware /\ [][NextMiddleware]_vars



\* --------------------------------- SpecDownload: DownloadProvider
MaxTask == 3                  \* task ids 1..MaxTask
maxConcurrentDownloads == 2   \* localStorage.getItem('maxConcurrentDownloads')

TaskIds == 1 .. MaxTask
storageVars == <<backend, now, userVars, tableVars, ret, histVars, postgres_play_records,
                 downloadingTasks, audioTasks, proxyRequests, openListFiles,
                 reading, updating>>

StatusOf(id) == IF id \in DOMAIN tasks THEN tasks[id] ELSE "none"
WithStatus(status) == {id \in DOMAIN tasks : tasks[id] = status}
\* allTasks.filter(t => t.status === 'downloading').length
DownloadingCount(allTasks) ==
  Cardinality({id \in DOMAIN allTasks : allTasks[id] = "downloading"})
SetStatus(allTasks, id, status) == [allTasks EXCEPT ![id] = status]
Remove(allTasks, id) == [i \in DOMAIN allTasks \ {id} |-> allTasks[i]]

\* startNextPendingTask after the downloader's tasks have become allTasks:
\* the resulting startTaskCalls, for the ready task that
\* allTasks.find(t => t.status === 'ready') returns
StartNextPendingTask(allTasks, calls, readyTask) ==
  IF DownloadingCount(allTasks) < maxConcurrentDownloads /\ readyTask # {}
  THEN calls \cup readyTask
  ELSE calls

\* what find returns: a ready task if there is one, else undefined ({})
Find(allTasks) ==
  LET ready == {id \in DOMAIN allTasks : allTasks[id] = "ready"}
  IN  IF ready = {} THEN {{}} ELSE {{id} : id \in ready}

\* const totalActiveCount = currentDownloadingCount + prev.size
TotalActiveCount(allTasks, starting) ==
  DownloadingCount(allTasks) + Cardinality(starting)

\* addDownloadTask: createTask, then the startingTaskIds updater
AddDownloadTask(taskId) ==
  /\ taskId \notin DOMAIN tasks
  /\ taskId \notin startTaskCalls \cup startingTaskIds
  /\ tasks' = (taskId :> "ready") @@ tasks
  /\ IF TotalActiveCount(tasks', startingTaskIds) < maxConcurrentDownloads
     THEN /\ startingTaskIds' = startingTaskIds \cup {taskId}
          /\ startTaskCalls' = startTaskCalls \cup {taskId}
     ELSE UNCHANGED <<startingTaskIds, startTaskCalls>>
  /\ UNCHANGED storageVars

\* startTask(taskId) of the context, on a task that waits or is paused
StartTask(taskId) ==
  /\ StatusOf(taskId) \in {"ready", "pause"}
  /\ IF DownloadingCount(tasks) < maxConcurrentDownloads
     THEN startTaskCalls' = startTaskCalls \cup {taskId}
     ELSE UNCHANGED startTaskCalls
  /\ UNCHANGED <<tasks, startingTaskIds>>
  /\ UNCHANGED storageVars

\* downloader.startTask(taskId) has started the task and its promise
\* resolves; the .then of addDownloadTask removes it from startingTaskIds
StartTaskResolves(taskId) ==
  /\ taskId \in startTaskCalls
  /\ startTaskCalls' = startTaskCalls \ {taskId}
  /\ startingTaskIds' = startingTaskIds \ {taskId}
  /\ tasks' = IF StatusOf(taskId) \in {"ready", "pause"}
              THEN SetStatus(tasks, taskId, "downloading") ELSE tasks
  /\ UNCHANGED storageVars

PauseTask(taskId) ==
  /\ StatusOf(taskId) = "downloading"
  /\ tasks' = SetStatus(tasks, taskId, "pause")
  /\ \E readyTask \in Find(tasks') :
       startTaskCalls' = StartNextPendingTask(tasks', startTaskCalls, readyTask)
  /\ UNCHANGED startingTaskIds
  /\ UNCHANGED storageVars

CancelTask(taskId) ==
  /\ taskId \in DOMAIN tasks
  /\ tasks' = Remove(tasks, taskId)
  /\ \E readyTask \in Find(tasks') :
       startTaskCalls' =
         StartNextPendingTask(tasks', startTaskCalls \ {taskId}, readyTask)
  /\ UNCHANGED startingTaskIds
  /\ UNCHANGED storageVars

\* the downloader's onComplete / onError callbacks
OnComplete(taskId) ==
  /\ StatusOf(taskId) = "downloading"
  /\ tasks' = SetStatus(tasks, taskId, "done")
  /\ \E readyTask \in Find(tasks') :
       startTaskCalls' = StartNextPendingTask(tasks', startTaskCalls, readyTask)
  /\ UNCHANGED startingTaskIds
  /\ UNCHANGED storageVars

OnError(taskId) ==
  /\ StatusOf(taskId) = "downloading"
  /\ tasks' = SetStatus(tasks, taskId, "error")
  /\ \E readyTask \in Find(tasks') :
       startTaskCalls' = StartNextPendingTask(tasks', startTaskCalls, readyTask)
  /\ UNCHANGED startingTaskIds
  /\ UNCHANGED storageVars

InitDownload ==
  /\ backend = "d1"
  /\ now = 1
  /\ users = {}
  /\ userInfoCache = {}
  /\ EmptyTables
  /\ NoHistory
  /\ OthersIdle

NextDownload ==
  \/ \E taskId \in TaskIds : AddDownloadTask(taskId)
  \/ \E taskId \in TaskIds : StartTask(taskId)
  \/ \E taskId \in TaskIds : StartTaskResolves(taskId)
  \/ \E taskId \in TaskIds : PauseTask(taskId)
  \/ \E taskId \in TaskIds : CancelTask(taskId)
  \/ \E taskId \in TaskIds : OnComplete(taskId)
  \/ \E taskId \in TaskIds : OnError(taskId)

SpecDownload == InitDownload /\ [][NextDownload]_vars

\* ------------------------- SpecAudioCache: cacheAudioToOpenList
MaxAudioTask == 4     \* promises 1..MaxAudioTask

Platforms == {<<"netease">>, <<"kuwo">>}
SongIds == {<<"1">>, <<"2">>}
Qualities == {<<"320k">>}
\* const taskKey = `${platform}-${songId}-${quality}`
TaskKey(platform, songId, quality) ==
  platform \o <<"-">> \o songId \o <<"-">> \o quality

\* downloadingTasks.get(taskKey): the promises stored under the key
ExistingTaskNone(taskKey) == {}

ExistingTask(taskKey) == {e.task : e \in {x \in downloadingTasks : x.key = taskKey}}

InFlight(taskKey) == {t \in audioTasks : t.key = taskKey}
FreePromises == (1 .. MaxAudioTask) \ {t.id : t \in audioTasks}

notAudio == <<backend, now, userVars, tableVars, histVars, postgres_play_records,
              tasks, startingTaskIds, startTaskCalls, proxyRequests, openListFiles,
                 reading, updating>>

\* cacheAudioToOpenList: returns the stored promise, or runs the task up to
\* its first await (the fetch of audioUrl is sent) and stores its promise
CacheAudioToOpenList(platform, songId, quality) ==
  LET taskKey == TaskKey(platform, songId, quality)
      existingTask == ExistingTask(taskKey)
  IN  IF existingTask # {}
      THEN /\ ret' = [op |-> "cacheAudioToOpenList", taskKey |-> taskKey,
                      promise |-> existingTask, started |-> FALSE]
           /\ UNCHANGED <<downloadingTasks, audioTasks>>
           /\ UNCHANGED notAudio
      ELSE /\ FreePromises # {}
           /\ LET downloadTask == CHOOSE id \in FreePromises :
                                    \A other \in FreePromises : id <= other
              IN  /\ audioTasks' = audioTasks \cup
                       {[id |-> downloadTask, key |-> taskKey, at |-> "fetch"]}
                  /\ downloadingTasks' =
                       {e \in downloadingTasks : e.key # taskKey}
                         \cup {[key |-> taskKey, task |-> downloadTask]}
                  /\ ret' = [op |-> "cacheAudioToOpenList", taskKey |-> taskKey,
                             promise |-> {downloadTask}, started |-> TRUE]
           /\ UNCHANGED notAudio

\* finally { downloadingTasks.delete(taskKey) }, and the promise settles
Finally(t) ==
  /\ audioTasks' = audioTasks \ {t}
  /\ downloadingTasks' = {e \in downloadingTasks : e.key # t.key}

\* the audio has been fetched and read, the upload is sent
FetchOk(t) ==
  /\ t \in audioTasks /\ t.at = "fetch"
  /\ audioTasks' = (audioTasks \ {t}) \cup {[t EXCEPT !.at = "upload"]}
  /\ UNCHANGED <<downloadingTasks, ret>>
  /\ UNCHANGED notAudio

\* the fetch answers with an error status, or fetch, arrayBuffer or
\* getToken throws
FetchFails(t) ==
  /\ t \in audioTasks /\ t.at = "fetch"
  /\ Finally(t)
  /\ UNCHANGED ret
  /\ UNCHANGED notAudio

\* the upload is answered (ok or not), or throws
UploadDone(t) ==
  /\ t \in audioTasks /\ t.at = "upload"
  /\ Finally(t)
  /\ UNCHANGED ret
  /\ UNCHANGED notAudio

AudioTaskStates ==
  [id : 1 .. MaxAudioTask,
   key : {TaskKey(p, s, q) : p \in Platforms, s \in SongIds, q \in Qualities},
   at : {"fetch", "upload"}]

InitAudioCache ==
  /\ backend = "d1"
  /\ now = 1
  /\ users = {}
  /\ userInfoCache = {}
  /\ EmptyTables
  /\ NoHistory
  /\ OthersIdle

NextAudioCache ==
  \/ \E p \in Platforms, s \in SongIds, q \in Qualities : CacheAudioToOpenList(p, s, q)
  \/ \E t \in AudioTaskStates : FetchOk(t)
  \/ \E t \in AudioTaskStates : FetchFails(t)
  \/ \E t \in AudioTaskStates : UploadDone(t)

SpecAudioCache == InitAudioCache /\ [][NextAudioCache]_vars

\* ------------------------- SpecProxyCache: serverCache.proxyRequests
CACHE_DURATION == 2   \* serverCache.CACHE_DURATION (24 hours), in clock units
MaxClock == 4         \* Date.now() stays within 0..MaxClock

notCache == <<backend, userVars, tableVars, histVars, postgres_play_records,
              tasks, startingTaskIds, startTaskCalls, downloadingTasks, audioTasks,
              reading, updating>>

ToplistsKey(platform) == <<"toplists", "-">> \o platform
ParseKey(platform, idsKey, qualityKey) ==
  <<"parse", "-">> \o platform \o <<"-">> \o idsKey \o <<"-">> \o qualityKey

\* serverCache.proxyRequests.get(cacheKey), {} for undefined
ProxyRequestsGet(cacheKey) == {e \in proxyRequests : e.key = cacheKey}
\* serverCache.proxyRequests.set(cacheKey, { data, timestamp: Date.now() })
ProxyRequestsSet(cacheKey, data) ==
  {e \in proxyRequests : e.key # cacheKey}
    \cup {[key |-> cacheKey, data |-> data, timestamp |-> now]}
\* cached && Date.now() - cached.timestamp < serverCache.CACHE_DURATION
Fresh(cached) ==
  cached # {} /\ now - (CHOOSE e \in cached : TRUE).timestamp < CACHE_DURATION

\* A response of the upstream API: what it holds is identified by the time
\* it was obtained.
Upstream == [obtainedAt |-> now, cached |-> FALSE]

\* replaceAudioUrlsWithOpenList: the urls of the songs whose audio file
\* OpenList holds are replaced and the songs marked cached
replaceAudioUrlsWithOpenList(data, found) ==
  [data EXCEPT !.cached = (data.cached \/ found)]

Served(action, cacheKey, data, from) ==
  [op |-> action, cacheKey |-> cacheKey, data |-> data, from |-> from, now |-> now]

\* The hit of the parse action with the entry stamped again on every hit.
ParseHitData(cached, found) ==
  replaceAudioUrlsWithOpenList((CHOOSE e \in cached : TRUE).data, found)

\* GET ?action=toplists&platform=...
GetToplists(platform) ==
  LET cacheKey == ToplistsKey(platform)
      cached == ProxyRequestsGet(cacheKey)
  IN  /\ IF Fresh(cached)
         THEN /\ ret' = Served("toplists", cacheKey, (CHOOSE e \in cached : TRUE).data, "memory")
              /\ UNCHANGED proxyRequests
         ELSE /\ proxyRequests' = ProxyRequestsSet(cacheKey, Upstream)
              /\ ret' = Served("toplists", cacheKey, Upstream, "upstream")
      /\ UNCHANGED <<now, openListFiles>>
      /\ UNCHANGED notCache

\* POST action 'parse'; openListClient tells whether getOpenListClient()
\* returned a client, found whether OpenList holds the audio files, ok
\* whether TuneHub answered with code 0
PostParse(platform, idsKey, qualityKey, openListClient, found, ok) ==
  LET cacheKey == ParseKey(platform, idsKey, qualityKey)
      cached == ProxyRequestsGet(cacheKey)
      file == {f \in openListFiles : f.key = cacheKey}
  IN  /\ IF Fresh(cached)
         THEN IF openListClient
              THEN /\ proxyRequests' = ProxyRequestsSet(cacheKey, ParseHitData(cached, found))
                   /\ ret' = Served("parse", cacheKey, ParseHitData(cached, found), "memory")
                   /\ UNCHANGED openListFiles
              ELSE /\ ret' = Served("parse", cacheKey, (CHOOSE e \in cached : TRUE).data, "memory")
                   /\ UNCHANGED <<proxyRequests, openListFiles>>
         ELSE IF openListClient /\ file # {}
         THEN LET updatedData ==
                    replaceAudioUrlsWithOpenList((CHOOSE f \in file : TRUE).data, found)
              IN  /\ proxyRequests' = ProxyRequestsSet(cacheKey, updatedData)
                  /\ ret' = Served("parse", cacheKey, updatedData, "openlist")
                  /\ UNCHANGED openListFiles
         ELSE IF ~ok
         THEN /\ ret' = [op |-> "parse", cacheKey |-> cacheKey, from |-> "error", now |-> now]
              /\ UNCHANGED <<proxyRequests, openListFiles>>
         ELSE LET finalData ==
                    IF openListClient THEN replaceAudioUrlsWithOpenList(Upstream, found)
                    ELSE Upstream
              IN  /\ proxyRequests' = ProxyRequestsSet(cacheKey, finalData)
                  /\ openListFiles' =
                       IF openListClient
                       THEN {f \in openListFiles : f.key # cacheKey}
                              \cup {[key |-> cacheKey, data |-> finalData]}
                       ELSE openListFiles
                  /\ ret' = Served("parse", cacheKey, finalData, "upstream")
      /\ UNCHANGED now
      /\ UNCHANGED notCache

\* time passes
Elapse ==
  /\ now < MaxClock
  /\ now' = now + 1
  /\ UNCHANGED <<ret, proxyRequests, openListFiles>>
  /\ UNCHANGED notCache

InitProxyCache ==
  /\ backend = "d1"
  /\ now = 0
  /\ users = {}
  /\ userInfoCache = {}
  /\ EmptyTables
  /\ NoHistory
  /\ OthersIdle

NextProxyCache ==
  \/ GetToplists(<<"netease">>)
  \/ \E openListClient, found, ok \in BOOLEAN :
       PostParse(<<"netease">>, <<"1">>, <<"320k">>, openListClient, found, ok)
  \/ Elapse

SpecProxyCache == InitProxyCache /\ [][NextProxyCache]_vars

\* ----------------------------------- SpecBatch: PostgresAdapter.batch
MusicPlatforms == {"netease", "kugou"}
MusicRecordInputs == [key : Keys, platform : MusicPlatforms, play_time : {1, 2}]
\* the records argument: entries with distinct keys
MusicRecordBatches ==
  {b \in SUBSET MusicRecordInputs :
     b # {} /\ \A r1, r2 \in b : r1.key = r2.key => r1 = r2}

MusicPlayRecordRow(userName, r) ==
  [username |-> userName, key |-> r.key, platform |-> r.platform,
   play_time |-> r.play_time]

\* The constraints of music_play_records: the foreign key to users and
\* CHECK(platform IN ('netease', 'qq', 'kuwo')).
Accepts(row) ==
  /\ HasUser(users, row.username)
  /\ row.platform \in {"netease", "qq", "kuwo"}

\* PostgresPreparedStatement.run of an INSERT ... ON CONFLICT(username, key)
\* DO UPDATE: sql.query in its own implicit transaction; an error is caught
\* and reported as { success: false }
Run(tbl, row, connected) ==
  IF connected /\ Accepts(row) THEN Upsert(tbl, row) ELSE tbl

\* Promise.all(statements.map((stmt) => stmt.execute())) over statements
\* with distinct keys
RECURSIVE RunAll(_, _, _)
RunAll(tbl, rows, connected) ==
  IF rows = {} THEN tbl
  ELSE LET row == CHOOSE r \in rows : TRUE
       IN  RunAll(Run(tbl, row, row \in connected), rows \ {row}, connected)

\* batchSetMusicPlayRecords(userName, records); connected are the statements
\* whose query reaches the database
BatchSetMusicPlayRecords(userName, records, connected) ==
  LET statements == {MusicPlayRecordRow(userName, r) : r \in records}
  IN  /\ music_play_records' = RunAll(music_play_records, statements, connected)
      /\ ret' = [op |-> "batchSetMusicPlayRecords", userName |-> userName,
                 records |-> records]
      /\ UNCHANGED <<backend, others, now, userVars, kvVars, searchVars,
                     danmaku_filter_configs, notifications, user_movie_requests,
                     favorite_check_times, music_playlists, music_playlist_songs,
                     global_config, histVars>>

InitBatch ==
  /\ backend = "postgres"
  /\ now = 1
  /\ users = RegisteredUsers
  /\ userInfoCache = {}
  /\ EmptyTables
  /\ NoHistory
  /\ OthersIdle

NextBatch ==
  \E userName \in Usernames, records \in MusicRecordBatches :
    \E connected \in SUBSET {MusicPlayRecordRow(userName, r) : r \in records} :
      BatchSetMusicPlayRecords(userName, records, connected)

SpecBatch == InitBatch /\ [][NextBatch]_vars

\* ------------------- SpecHash: the hash adapter with any hash key
\* 'user_tokens:' + username for usernames a, A, a_b, axb and a:b
HashUsernames ==
  {<<"a">>, <<"A">>, <<"a", "_", "b">>, <<"a", "x", "b">>, <<"a", ":", "b">>}
HashKeys == {<<"user_tokens", ":">> \o u : u \in HashUsernames}
HashFields == {<<"1">>}
HashValues == {"device-a", "device-b"}

InitHash ==
  /\ backend \in Backends
  /\ now = 1
  /\ users = {}
  /\ userInfoCache = {}
  /\ EmptyTables
  /\ NoHistory
  /\ OthersIdle

NextHash ==
  \/ \E h \in HashKeys, f \in HashFields, v \in HashValues : HSet(h, f, v)
  \/ \E h \in HashKeys, f \in HashFields : HDel(h, f)
  \/ \E h \in HashKeys : Del(h)

SpecHash == InitHash /\ [][NextHash]_vars

\* --------------------------------------------- SpecClear: clearAllData
\* clearAllData: DELETE FROM each table of its list. movie_requests, whose
\* rows belong to no single user, is not part of the state; deleting its
\* rows cascades to user_movie_requests, which the list names as well.
ClearedTables ==
  {"play_records", "favorites", "search_history", "skip_configs",
   "danmaku_filter_configs", "notifications", "movie_requests",
   "user_movie_requests", "favorite_check_times", "global_config"}

DeleteFrom(tableName, tbl) == IF tableName \in ClearedTables THEN {} ELSE tbl

ClearAllData ==
  /\ play_records' = DeleteFrom("play_records", play_records)
  /\ favorites' = DeleteFrom("favorites", favorites)
  /\ search_history' = DeleteFrom("search_history", search_history)
  /\ skip_configs' = DeleteFrom("skip_configs", skip_configs)
  /\ danmaku_filter_configs' = DeleteFrom("danmaku_filter_configs", danmaku_filter_configs)
  /\ notifications' = DeleteFrom("notifications", notifications)
  /\ user_movie_requests' = DeleteFrom("user_movie_requests", user_movie_requests)
  /\ favorite_check_times' = DeleteFrom("favorite_check_times", favorite_check_times)
  /\ global_config' = DeleteFrom("global_config", global_config)
  /\ music_play_records' = DeleteFrom("music_play_records", music_play_records)
  /\ music_playlists' = DeleteFrom("music_playlists", music_playlists)
  /\ music_playlist_songs' = DeleteFrom("music_playlist_songs", music_playlist_songs)
  /\ ret' = [op |-> "clearAllData"]
  /\ UNCHANGED <<backend, others, now, userVars, nextSearchId, histVars>>

\* data of every user, then a login of one of them
NextClear ==
  \/ ClearAllData
  \/ \E u \in Usernames : HSet(UserTokensKey(u), Field(1), "device-a")

SpecClear == InitCascade /\ [][NextClear]_vars



\* ------------------- SpecRace: getUserInfoV2 beside updateUserInfoV2
\* Both methods are async functions: each runs up to its await of the
\* statement, the database executes the statement, and the rest of the
\* method runs when the call is resumed with the result.
MaxCall == 2        \* the calls of one method in flight at a time
CallIds == 1 .. MaxCall
RaceUsernames == {1}
RaceInputs ==
  {[fields |-> {"role"}, role |-> "admin", banned |-> FALSE],
   [fields |-> {"banned"}, role |-> "user", banned |-> TRUE],
   [fields |-> {}, role |-> "user", banned |-> FALSE]}
raceVars == <<backend, postgres_play_records, tasks, startingTaskIds, startTaskCalls,
              downloadingTasks, audioTasks, proxyRequests, openListFiles,
              now, tableVars, histVars>>
Free(calls, id) == \A c \in calls : c.id # id

\* getUserInfoV2 up to `await this.db.prepare('SELECT ...').bind(userName).first()`
GetUserInfoV2Call(id, userName) ==
  /\ Free(reading, id)
  /\ IF CacheHas(userName)
     THEN /\ ret' = [op |-> "getUserInfoV2", userName |-> userName,
                     value |-> CacheGet(userName)]
          /\ UNCHANGED reading
     ELSE /\ reading' = reading \cup
               {[id |-> id, userName |-> userName, pc |-> "first", user |-> {}]}
          /\ UNCHANGED ret
  /\ UNCHANGED <<raceVars, userVars, updating>>

\* the database executes SELECT * FROM users WHERE username = ?
GetUserInfoV2First(c) ==
  /\ c \in reading /\ c.pc = "first"
  /\ reading' = (reading \ {c}) \cup
       {[c EXCEPT !.pc = "resume", !.user = {r \in users : r.username = c.userName}]}
  /\ UNCHANGED <<raceVars, userVars, updating, ret>>

\* getUserInfoV2 from `if (user)` on: userInfoCache.set and the return.
\* The INSERT of the owner's row is taken in the same step.
GetUserInfoV2Resume(c) ==
  /\ c \in reading /\ c.pc = "resume"
  /\ reading' = reading \ {c}
  /\ IF c.user # {}
     THEN LET userInfo == RowToUserInfo(backend, CHOOSE r \in c.user : TRUE, c.userName)
          IN  /\ userInfoCache' = CacheSet(userInfoCache, c.userName, userInfo)
              /\ ret' = [op |-> "getUserInfoV2", userName |-> c.userName,
                         value |-> userInfo]
              /\ UNCHANGED users
     ELSE IF c.userName = USERNAME
     THEN /\ users' = IF HasUser(users, USERNAME) THEN users
                      ELSE users \cup {NewUserRow(USERNAME, EmptyString, "owner", 0, now)}
          /\ userInfoCache' = CacheSet(userInfoCache, c.userName, OwnerInfo(now))
          /\ ret' = [op |-> "getUserInfoV2", userName |-> c.userName,
                     value |-> OwnerInfo(now)]
     ELSE /\ ret' = [op |-> "getUserInfoV2", userName |-> c.userName, value |-> Null]
          /\ UNCHANGED userVars
  /\ UNCHANGED <<raceVars, updating>>

\* updateUserInfoV2 up to `await this.db.prepare('UPDATE users SET ...').run()`
UpdateUserInfoV2Call(id, userName, updates) ==
  /\ Free(updating, id)
  /\ updating' = IF updates.fields = {} THEN updating
                 ELSE updating \cup {[id |-> id, userName |-> userName,
                                       updates |-> updates, pc |-> "run"]}
  /\ UNCHANGED <<raceVars, userVars, reading, ret>>

\* the database executes UPDATE users SET ... WHERE username = ?
UpdateUserInfoV2Run(c) ==
  /\ c \in updating /\ c.pc = "run"
  /\ users' = {IF r.username = c.userName THEN UpdatedUser(r, c.updates) ELSE r :
               r \in users}
  /\ updating' = (updating \ {c}) \cup {[c EXCEPT !.pc = "resume"]}
  /\ UNCHANGED <<raceVars, userInfoCache, reading, ret>>

\* updateUserInfoV2 after the await: userInfoCache.delete(userName)
UpdateUserInfoV2Resume(c) ==
  /\ c \in updating /\ c.pc = "resume"
  /\ userInfoCache' = CacheAfter("updateUserInfoV2", c.userName)
  /\ updating' = updating \ {c}
  /\ UNCHANGED <<raceVars, users, reading, ret>>

NextRace ==
  \/ \E u \in RaceUsernames : CreateUserV2(u, PASSWORD, "user")
  \/ \E id \in CallIds, u \in RaceUsernames \cup {USERNAME} : GetUserInfoV2Call(id, u)
  \/ \E c \in reading : GetUserInfoV2First(c)
  \/ \E c \in reading : GetUserInfoV2Resume(c)
  \/ \E id \in CallIds, u \in RaceUsernames, upd \in RaceInputs :
       UpdateUserInfoV2Call(id, u, upd)
  \/ \E c \in updating : UpdateUserInfoV2Run(c)
  \/ \E c \in updating : UpdateUserInfoV2Resume(c)

SpecRace == Init /\ [][NextRace]_vars

\* ----------------------- SpecWrite: PostgresStorage writes that fail
\* sql.query(convertedQuery, this.params) throws when the statement violates
\* a constraint of the schema or the connection is lost.
SqlQueryThrows(violates, lost) == violates \/ lost

\* PostgresPreparedStatement.run(): the try block returns { success: true },
\* the catch block logs the error and returns { success: false, error }.
\* threw tells whether the promise run() returns rejects.
run(violates, lost) ==
  IF SqlQueryThrows(violates, lost)
  THEN [threw |-> FALSE, success |-> FALSE]
  ELSE [threw |-> FALSE, success |-> TRUE]

\* try { await this.db.prepare(...).bind(...).run(); } catch (err) { throw err; }
\* The value run() resolves to is not read.
Settled(result) == IF result.threw THEN "rejected" ELSE "resolved"

WriteResult(op, userName, violates, lost) ==
  [op |-> op, userName |-> userName,
   failed |-> SqlQueryThrows(violates, lost),
   outcome |-> Settled(run(violates, lost))]

\* PostgresStorage.createUserV2: users.username is the primary key.
WriteCreateUserV2(userName, role, lost) ==
  LET violates == HasUser(users, userName)
  IN  /\ backend = "postgres"
      /\ users' = IF SqlQueryThrows(violates, lost) THEN users
                  ELSE users \cup {NewUserRow(userName, hashPassword(PASSWORD), role, 0, now)}
      /\ ret' = WriteResult("createUserV2", userName, violates, lost)
      /\ UNCHANGED <<backend, others, now, userInfoCache, tableVars, histVars>>

\* PostgresStorage.setPlayRecord: play_records.username references users.
WriteSetPlayRecord(userName, key, record, lost) ==
  LET violates == ~HasUser(users, userName)
  IN  /\ backend = "postgres"
      /\ play_records' =
           IF SqlQueryThrows(violates, lost) THEN play_records
           ELSE Upsert(play_records, PlayRecordRow(backend, userName, key, record))
      /\ ret' = WriteResult("setPlayRecord", userName, violates, lost)
      /\ UNCHANGED <<backend, others, now, userVars, favorites, skip_configs,
                     searchVars, otherTables, histVars>>

\* PostgresStorage.setFavorite: favorites.username references users.
WriteSetFavorite(userName, key, favorite, lost) ==
  LET violates == ~HasUser(users, userName)
  IN  /\ backend = "postgres"
      /\ favorites' =
           IF SqlQueryThrows(violates, lost) THEN favorites
           ELSE Upsert(favorites, FavoriteRow(userName, key, favorite))
      /\ ret' = WriteResult("setFavorite", userName, violates, lost)
      /\ UNCHANGED <<backend, others, now, userVars, play_records, skip_configs,
                     searchVars, otherTables, histVars>>

\* PostgresStorage.deleteUserV2: the DELETE, then userInfoCache.delete.
WriteDeleteUserV2(userName, lost) ==
  /\ backend = "postgres"
  /\ IF lost
     THEN UNCHANGED <<users, tableVars>>
     ELSE DeleteUsersRow(userName)
  /\ userInfoCache' = CacheAfter("deleteUserV2", userName)
  /\ ret' = WriteResult("deleteUserV2", userName, FALSE, lost)
  /\ UNCHANGED <<backend, others, now, histVars>>

InitWrite == Init /\ backend = "postgres"
WriteRecords == {r \in PlayRecordInputs : r.new_episodes = {}}
WriteFavorites == {f \in FavoriteInputs : f.origin = {} /\ f.is_completed}

NextWrite ==
  \/ \E u \in Usernames, r \in {"user", "admin"}, lost \in BOOLEAN :
       WriteCreateUserV2(u, r, lost)
  \/ \E u \in Usernames, r \in WriteRecords, lost \in BOOLEAN :
       WriteSetPlayRecord(u, 1, r, lost)
  \/ \E u \in Usernames, f \in WriteFavorites, lost \in BOOLEAN :
       WriteSetFavorite(u, 1, f, lost)
  \/ \E u \in Usernames, lost \in BOOLEAN : WriteDeleteUserV2(u, lost)

SpecWrite == InitWrite /\ [][NextWrite]_vars

\* ------------------------ SpecResolve: resolveM3u8Links of the M3U8 proxy
\* A line is a sequence of pieces of text; m3u8Content.split('\n') is a
\* sequence of lines. A piece is a tag, a scheme, a separator or a name, and
\* a test of the source on the text of a line is made on its pieces.
MaxLines == 3       \* the lines of a playlist
HashPieces == {"#EXTM3U", "#EXT-X-STREAM-INF:", "#EXT-X-KEY:", "#EXTINF:",
               "#EXT-X-DISCONTINUITY", "#EXT-X-ENDLIST"}
Whitespace == {" ", "\r"}

\* line.startsWith('#'), line.startsWith('#EXT-X-KEY:'), ...
StartsWithHash(line) == line # <<>> /\ Head(line) \in HashPieces
StartsWithPiece(line, piece) == line # <<>> /\ Head(line) = piece
StartsWithHttp(url) == url # <<>> /\ Head(url) \in {"http://", "https://"}

\* s.includes(piece)
Includes(s, piece) == \E i \in 1 .. Len(s) : s[i] = piece

\* s.indexOf(piece) + 1 and s.lastIndexOf(piece) + 1: 0 when there is none
IndexOf(s, piece) ==
  IF Includes(s, piece)
  THEN CHOOSE i \in 1 .. Len(s) : s[i] = piece /\ \A j \in 1 .. i - 1 : s[j] # piece
  ELSE 0
LastIndexOf(s, piece) ==
  IF Includes(s, piece)
  THEN CHOOSE i \in 1 .. Len(s) : s[i] = piece /\ \A j \in i + 1 .. Len(s) : s[j] # piece
  ELSE 0

\* line.trim()
RECURSIVE TrimStart(_)
TrimStart(s) == IF s # <<>> /\ Head(s) \in Whitespace THEN TrimStart(Tail(s)) ELSE s
RECURSIVE TrimEnd(_)
TrimEnd(s) ==
  IF s # <<>> /\ s[Len(s)] \in Whitespace THEN TrimEnd(SubSeq(s, 1, Len(s) - 1)) ELSE s
Trim(s) == TrimEnd(TrimStart(s))

\* `${base.protocol}//${base.host}` of base = new URL(baseUrl): baseUrl is
\* <<scheme, host, "/", ...path>>
BaseOrigin(baseUrl) == SubSeq(baseUrl, 1, 2)
\* base.href.substring(0, base.href.lastIndexOf('/') + 1)
BaseDir(baseUrl) == SubSeq(baseUrl, 1, LastIndexOf(baseUrl, "/"))

\* The conversion of a reference to an absolute URL; new URL(url, baseDir).href
\* of a relative path without dot segments is baseDir followed by the path.
ToAbsolute(url, baseUrl) ==
  IF StartsWithHttp(url) THEN url
  ELSE IF StartsWithPiece(url, "/") THEN BaseOrigin(baseUrl) \o url
  ELSE BaseDir(baseUrl) \o url

\* encodeURIComponent
EncodePiece(piece) ==
  CASE piece = "https://" -> "https%3A%2F%2F"
    [] piece = "http://" -> "http%3A%2F%2F"
    [] piece = "/" -> "%2F"
    [] piece = " " -> "%20"
    [] OTHER -> piece
encodeURIComponent(s) == [i \in 1 .. Len(s) |-> EncodePiece(s[i])]

\* `${proxyOrigin}/api/proxy-m3u8?url=...${source ? `&source=...` : ''}${tokenParam}`
ProxyLink(url, source, proxyOrigin, token) ==
  LET tokenParam == IF token # <<>> THEN <<"&token=">> \o encodeURIComponent(token)
                    ELSE <<>>
  IN  proxyOrigin \o <<"/api/proxy-m3u8?url=">> \o encodeURIComponent(url)
        \o (IF source # <<>> THEN <<"&source=">> \o encodeURIComponent(source) ELSE <<>>)
        \o tokenParam

\* The #EXT-X-KEY branch: line.match(/URI="([^"]+)"/) and the replacement.
ResolveKeyLine(line, baseUrl) ==
  LET p == IndexOf(line, "URI=\"")
      rest == SubSeq(line, p + 1, Len(line))
      q == IndexOf(rest, "\"")
      keyUri == SubSeq(rest, 1, q - 1)
  IN  IF p = 0 \/ q <= 1 THEN line
      ELSE IF StartsWithHttp(keyUri) THEN line
      ELSE SubSeq(line, 1, p) \o ToAbsolute(keyUri, baseUrl) \o SubSeq(rest, q, Len(rest))

\* The URL branch
ResolveUrlLine(line, isNextLineUrl, baseUrl, source, proxyOrigin, token) ==
  LET url == ToAbsolute(Trim(line), baseUrl)
      isM3u8 == Includes(url, ".m3u8") \/ isNextLineUrl
  IN  IF isM3u8 THEN ProxyLink(url, source, proxyOrigin, token) ELSE url

\* The loop of resolveM3u8Links from one line on.
RECURSIVE ResolveLines(_, _, _, _, _, _)
ResolveLines(lines, isNextLineUrl, baseUrl, source, proxyOrigin, token) ==
  IF lines = <<>> THEN <<>>
  ELSE LET line == Head(lines)
       IN  IF StartsWithPiece(line, "#EXT-X-KEY:")
           THEN <<ResolveKeyLine(line, baseUrl)>> \o
                ResolveLines(Tail(lines), isNextLineUrl, baseUrl, source, proxyOrigin, token)
           ELSE IF StartsWithHash(line)
           THEN <<line>> \o
                ResolveLines(Tail(lines),
                             isNextLineUrl \/ StartsWithPiece(line, "#EXT-X-STREAM-INF:"),
                             baseUrl, source, proxyOrigin, token)
           ELSE IF Trim(line) = <<>>
           THEN <<line>> \o
                ResolveLines(Tail(lines), isNextLineUrl, baseUrl, source, proxyOrigin, token)
           ELSE <<ResolveUrlLine(line, isNextLineUrl, baseUrl, source, proxyOrigin, token)>>
                \o ResolveLines(Tail(lines), FALSE, baseUrl, source, proxyOrigin, token)

resolveM3u8Links(m3u8Content, baseUrl, source, proxyOrigin, token) ==
  ResolveLines(m3u8Content, FALSE, baseUrl, source, proxyOrigin, token)

ResolveInputLines ==
  {<<"#EXTM3U">>,
   <<"#EXT-X-STREAM-INF:", "BANDWIDTH=1">>,
   <<"#EXT-X-KEY:", "METHOD=AES-128,", "URI=\"", "enc", ".key", "\"">>,
   <<>>,
   <<" ">>,
   <<"seg", ".ts">>,
   <<"/", "seg", ".ts", "\r">>,
   <<"https://", "cdn", "/", "sub", ".m3u8">>,
   <<" ", "sub", ".m3u8">>}
SeqsUpTo(S, n) == UNION {[1 .. k -> S] : k \in 1 .. n}
BaseUrls ==
  {<<"https://", "h", "/", "v", "/", "index", ".m3u8">>,
   <<"https://", "h", "/", "live", ".m3u8", "/", "index", ".m3u8">>}
ProxyOrigin == <<"https://", "site">>
ResolveRequests ==
  [op : {"proxy-m3u8"}, m3u8Content : SeqsUpTo(ResolveInputLines, MaxLines),
   baseUrl : BaseUrls, source : {<<>>, <<"src">>}, token : {<<>>, <<"t">>}]

ResolveM3u8Links ==
  /\ ret.op = "proxy-m3u8"
  /\ ret' = [ret EXCEPT !.op = "resolveM3u8Links"] @@
            [resolved |-> resolveM3u8Links(ret.m3u8Content, ret.baseUrl, ret.source,
                                           ProxyOrigin, ret.token)]
  /\ UNCHANGED <<backend, others, now, userVars, tableVars, histVars>>

InitResolve ==
  /\ backend = "d1"
  /\ now = 1
  /\ users = {}
  /\ userInfoCache = {}
  /\ EmptyTables
  /\ ret \in ResolveRequests
  /\ lastPassword = [u \in Usernames |-> [pw |-> -1, changed |-> FALSE]]
  /\ lastSet = [play_records |-> {}, favorites |-> {}, skip_configs |-> {}]
  /\ listing = [active |-> FALSE]
  /\ OthersIdle

NextResolve == ResolveM3u8Links

SpecResolve == InitResolve /\ [][NextResolve]_vars

\* ---------------------- SpecFilter: filterAdsFromM3U8Default of the proxy
adKeywords ==
  {"sponsor", "/ad/", "/ads/", "advert", "advertisement", "/adjump", "redtraffic"}

\* nextLine.toLowerCase()
LowerPiece(piece) ==
  CASE piece = "/AD/" -> "/ad/"
    [] piece = "Sponsor" -> "sponsor"
    [] OTHER -> piece
toLowerCase(s) == [i \in 1 .. Len(s) |-> LowerPiece(s[i])]

\* adKeywords.some(keyword => nextLine.toLowerCase().includes(keyword.toLowerCase()))
ContainsAdKeyword(nextLine) ==
  \E keyword \in adKeywords : Includes(toLowerCase(nextLine), keyword)

\* The while loop from line i on: the lines pushed to filteredLines.
RECURSIVE FilterLines(_)
FilterLines(lines) ==
  IF lines = <<>> THEN <<>>
  ELSE LET line == Head(lines)
       IN  IF Includes(line, "#EXT-X-DISCONTINUITY")
           THEN FilterLines(Tail(lines))
           ELSE IF /\ Includes(line, "#EXTINF:")
                   /\ Len(lines) > 1
                   /\ ContainsAdKeyword(lines[2])
           THEN FilterLines(Tail(Tail(lines)))
           ELSE <<line>> \o FilterLines(Tail(lines))

\* filteredLines.join('\n') read as text again: the text without lines is
\* the empty string, which splits into one empty line.
JoinLines(lines) == IF lines = <<>> THEN <<<<>>>> ELSE lines

filterAdsFromM3U8Default(type, m3u8Content) ==
  IF m3u8Content = <<<<>>>> THEN <<<<>>>>
  ELSE JoinLines(FilterLines(m3u8Content))

FilterInputLines ==
  {<<"#EXTM3U">>,
   <<"#EXTINF:", "5,">>,
   <<"#EXT-X-DISCONTINUITY">>,
   <<"seg", ".ts">>,
   <<"https://", "cdn", "/ad/", "a", ".ts">>,
   <<"/AD/", "b", ".ts">>,
   <<>>}
FilterRequests ==
  [op : {"proxy-m3u8"}, source : {<<"src">>},
   m3u8Content : SeqsUpTo(FilterInputLines, MaxLines)]

\* The default rule applied to the fetched playlist, and to its own result.
FilterAdsFromM3U8Default ==
  /\ ret.op = "proxy-m3u8"
  /\ LET filtered == filterAdsFromM3U8Default(ret.source, ret.m3u8Content)
     IN  ret' = [ret EXCEPT !.op = "filterAdsFromM3U8Default"] @@
                [filtered |-> filtered,
                 again |-> filterAdsFromM3U8Default(ret.source, filtered)]
  /\ UNCHANGED <<backend, others, now, userVars, tableVars, histVars>>

InitFilter ==
  /\ backend = "d1"
  /\ now = 1
  /\ users = {}
  /\ userInfoCache = {}
  /\ EmptyTables
  /\ ret \in FilterRequests
  /\ lastPassword = [u \in Usernames |-> [pw |-> -1, changed |-> FALSE]]
  /\ lastSet = [play_records |-> {}, favorites |-> {}, skip_configs |-> {}]
  /\ listing = [active |-> FALSE]
  /\ OthersIdle

NextFilter == FilterAdsFromM3U8Default

SpecFilter == InitFilter /\ [][NextFilter]_vars

\* ------------------------------------------------------------ claims
\* C1: in play_records, favorites and skip_configs there is at most one row
\* per (username, key), and get(username, key) returns the value of the
\* latest set of that pair that no delete followed (null if there is none).
UniqueKey(tbl) ==
  \A r1, r2 \in tbl : (r1.username = r2.username /\ r1.key = r2.key) => r1 = r2

C1_UpsertLastWriterWins ==
  /\ UniqueKey(play_records) /\ UniqueKey(favorites) /\ UniqueKey(skip_configs)
  /\ \A u \in Usernames, k \in Keys :
       /\ getPlayRecord(backend, play_records, u, k) = LastSetOf("play_records", u, k)
       /\ getFavorite(favorites, u, k) = LastSetOf("favorites", u, k)
  /\ \A u \in Usernames, src \in Sources, id \in Ids :
       getSkipConfig(skip_configs, u, src, id)
         = LastSetOf("skip_configs", u, SkipKey(src, id))

\* C3: verifyUser(USERNAME, pw) is true exactly when pw is the configured
\* PASSWORD, whatever password hash the users row of the owner holds.
C3_OwnerVerifiesByEnvPasswordOnly ==
  \A pw \in Passwords : verifyUser(users, USERNAME, pw) <=> (pw = PASSWORD)

\* C4: getUserInfoV2(USERNAME) returns role 'owner', whatever role the
\* stored users row of the site owner holds.
C4_OwnerInfoRoleIsOwner ==
  (ret.op = "getUserInfoV2" /\ ret.userName = USERNAME) => ret.value.role = "owner"

\* C10: for a stored, non-banned user other than the site owner,
\* verifyUser(u, p) is true exactly when SHA-256(p) is the stored
\* password_hash; after createUserV2 and any changePassword/changePasswordV2
\* calls only the most recently set password verifies.
C10_VerifyMatchesStoredHash ==
  \A u \in Usernames \ {USERNAME} :
    (HasUser(users, u) /\ UserRow(users, u).banned = 0) =>
      /\ \A p \in Passwords :
           verifyUser(users, u, p) <=> (hashPassword(p) = UserRow(users, u).password_hash)
      /\ lastPassword[u].pw # -1 =>
           \A p \in Passwords : verifyUser(users, u, p) <=> (p = lastPassword[u].pw)

\* A stored, non-banned user whose password changePassword has replaced:
\* the new password verifies and another one does not.
C10_Witness ==
  \E u \in Usernames \ {USERNAME} :
    /\ HasUser(users, u) /\ UserRow(users, u).banned = 0
    /\ lastPassword[u] = [pw |-> MaxPw, changed |-> TRUE]
    /\ verifyUser(users, u, MaxPw)
    /\ ~verifyUser(users, u, PASSWORD)

\* C9: playrecord_migrated, favorite_migrated and skip_migrated are
\* monotonic: once a flag is 1 in the users row of a stored user, no
\* storage operation on that user sets it back to 0.
C9_MigratedFlagsMonotonic ==
  [][\A u \in Usernames :
       (HasUser(users, u) /\ HasUser(users', u)) =>
         \A flag \in {"playrecord_migrated", "favorite_migrated", "skip_migrated"} :
           UserRow(users, u)[flag] = 1 => UserRow(users', u)[flag] = 1]_vars

\* A migration has run on a legacy row: one flag is set, another is not
\* yet, and the row has since been updated by another operation.
C9_Witness ==
  \E u \in Usernames :
    /\ HasUser(users, u)
    /\ UserRow(users, u).playrecord_migrated = 1
    /\ UserRow(users, u).skip_migrated = 0
    /\ UserRow(users, u).banned = 1
    /\ UserRow(users, u).email # NULL

\* C2: once deleteUser(u) or deleteUserV2(u) has removed the users row of u,
\* no table holds a row of u (and no song of a playlist of u remains), and
\* the rows of every other user are as they were.
OwnedBy(u) ==
  <<{r \in play_records : r.username = u}, {r \in favorites : r.username = u},
    {r \in search_history : r.username = u}, {r \in skip_configs : r.username = u},
    {r \in danmaku_filter_configs : r.username = u},
    {r \in notifications : r.username = u},
    {r \in user_movie_requests : r.username = u},
    {r \in favorite_check_times : r.username = u},
    {r \in music_play_records : r.username = u},
    {r \in music_playlists : r.username = u},
    {s \in music_playlist_songs : s.playlist_id[1] = u}>>

NothingOwned == <<{}, {}, {}, {}, {}, {}, {}, {}, {}, {}, {}>>

C2_DeleteUserCascades ==
  [][\A u \in Usernames :
       (HasUser(users, u) /\ ~HasUser(users', u)) =>
         /\ OwnedBy(u)' = NothingOwned
         /\ \A v \in Usernames \ {u} : OwnedBy(v)' = OwnedBy(v)]_vars

\* A user with rows in every table has been deleted; another user is still
\* registered and still owns rows in every table.
C2_Witness ==
  \E u, v \in Usernames :
    /\ ~HasUser(users, u) /\ HasUser(users, v)
    /\ OwnedBy(u) = NothingOwned
    /\ \A i \in 1 .. 11 : OwnedBy(v)[i] # {}

\* C5: for limit >= 1 the list getUserListV2(0, limit, owner) returns starts
\* with the owner, with role 'owner', and holds the owner exactly once.
C5_OwnerFirstOnFirstPage ==
  (ret.op = "getUserListV2" /\ ret.offset = 0) =>
    /\ Len(ret.users) >= 1
    /\ ret.users[1].username = USERNAME
    /\ ret.users[1].role = "owner"
    /\ Cardinality({i \in 1 .. Len(ret.users) : ret.users[i].username = USERNAME}) = 1

\* A first page of a store whose owner row sorts after the row of another
\* user: the page holds the owner first and that user after it.
C5_Witness ==
  /\ ret.op = "getUserListV2" /\ ret.offset = 0
  /\ HasUser(users, USERNAME)
  /\ \E r \in users : r.username # USERNAME
                      /\ r.created_at > UserRow(users, USERNAME).created_at
  /\ Len(ret.users) >= 2
  /\ ret.users[1].username = USERNAME

\* C6: the pages getUserListV2(k * limit, limit, owner), k = 0, 1, 2, ...,
\* of a fixed store together list the owner and every stored user exactly
\* once.
C6_PagesListEveryoneOnce ==
  (listing.active /\ listing.done) =>
    /\ \A i, j \in 1 .. Len(listing.seen) :
         listing.seen[i] = listing.seen[j] => i = j
    /\ {listing.seen[i] : i \in 1 .. Len(listing.seen)}
         = {USERNAME} \cup {r.username : r \in users}

\* C7: after cleanupOldPlayRecords(u) the user has at most
\* MAX_PLAY_RECORDS_PER_USER + 10 play records; when the call prunes,
\* exactly MAX_PLAY_RECORDS_PER_USER records remain, and no removed record
\* has a save_time newer than that of a kept record.
PlayRecordsOf(tbl, u) == {r \in tbl : r.username = u}

C7_CleanupKeepsNewest ==
  [][\A u \in Usernames :
       CleanupOldPlayRecords(u) =>
         LET before == PlayRecordsOf(play_records, u)
             after == PlayRecordsOf(play_records', u)
         IN  /\ Cardinality(after) <= MAX_PLAY_RECORDS_PER_USER + 10
             /\ after \subseteq before
             /\ after # before =>
                  /\ Cardinality(after) = MAX_PLAY_RECORDS_PER_USER
                  /\ \A removed \in before \ after, kept \in after :
                       removed.save_time <= kept.save_time]_vars

\* A cleanup that found more than the threshold and pruned down to the
\* maximum, keeping a record that ties with a removed one.
C7_Witness ==
  /\ ret.op = "cleanupOldPlayRecords"
  /\ ret.count > MAX_PLAY_RECORDS_PER_USER + 10
  /\ Cardinality(PlayRecordsOf(play_records, ret.userName)) = MAX_PLAY_RECORDS_PER_USER
  /\ \A r \in PlayRecordsOf(play_records, ret.userName) : r.save_time = 1

\* C8: after addSearchHistory(u, kw), getSearchHistory(u) returns at most 20
\* pairwise distinct keywords, newest first, with kw at the head; re-adding
\* a stored keyword creates no duplicate; and when a 21st distinct keyword
\* is added, the keyword dropped is one with the oldest timestamp.
NewestFirst(tbl, u, result) ==
  \A i, j \in 1 .. Len(result) :
    i < j =>
      \A ri, rj \in SearchHistoryOf(tbl, u) :
        (ri.keyword = result[i] /\ rj.keyword = result[j]) =>
          ri.timestamp >= rj.timestamp

C8_SearchHistoryNewestFirst ==
  [][\A u \in Usernames, kw \in SearchKeywords :
       AddSearchHistory(u, kw) =>
         LET before == SearchHistoryOf(search_history, u)
             after == SearchHistoryOf(search_history', u)
         IN  /\ \A result \in getSearchHistory(search_history', u) :
                  /\ Len(result) <= 20
                  /\ \A i, j \in 1 .. Len(result) : result[i] = result[j] => i = j
                  /\ NewestFirst(search_history', u, result)
                  /\ Len(result) >= 1 /\ result[1] = kw
             /\ Cardinality({r \in after : r.keyword = kw}) = 1
             /\ (Cardinality(before) = 20 /\ ~\E r \in before : r.keyword = kw) =>
                  \E dropped \in before :
                    /\ \A r \in before : dropped.timestamp <= r.timestamp
                    /\ {r.keyword : r \in after}
                         = ({r.keyword : r \in before} \ {dropped.keyword}) \cup {kw}]_vars

\* C11: after deleteUserV2(u), no refresh token of u remains:
\* hGetAll('user_tokens:' + u) is empty.
C11_DeleteUserRemovesTokens ==
  [][\A u \in Usernames :
       DeleteUserV2(u) => hGetAll(global_config', UserTokensKey(u)) = {}]_vars

\* C12: after the same play-record operations, PostgresStorage and
\* D1Storage answer getPlayRecord and getAllPlayRecords alike, new_episodes
\* included.
C12_PostgresRefinesD1PlayRecords ==
  \A u \in Usernames :
    /\ getAllPlayRecords("postgres", postgres_play_records, u)
         = getAllPlayRecords("d1", play_records, u)
    /\ \A k \in Keys :
         getPlayRecord("postgres", postgres_play_records, u, k)
           = getPlayRecord("d1", play_records, u, k)

\* C18: the total that getUserListV2 returns is the number of users in the
\* store the call leaves behind, plus one exactly when the owner has no
\* row in it.
C18_TotalCountsOwnerOnce ==
  (listing.active /\ ret.op = "getUserListV2") =>
    ret.total = Cardinality(users) + (IF HasUser(users, USERNAME) THEN 0 ELSE 1)

\* C19: a page of getUserListV2(offset, limit, owner) with limit >= 1 holds
\* at most limit users, and the first page holds the owner and at most
\* limit - 1 other users.
C19_PageHoldsAtMostLimit ==
  (listing.active /\ ret.op = "getUserListV2" /\ ret.limit >= 1) =>
    /\ Len(ret.users) <= ret.limit
    /\ ret.offset = 0 =>
         /\ Len(ret.users) >= 1 /\ ret.users[1].username = USERNAME
         /\ Cardinality({i \in 1 .. Len(ret.users) :
                           ret.users[i].username # USERNAME}) <= ret.limit - 1

\* C13: outside localstorage mode a request on a protected path is let
\* through only if its cookie carries username, role, signature, timestamp,
\* tokenId, refreshToken and refreshExpires, the time is before
\* refreshExpires and the signature is the HMAC-SHA-256 of
\* {username, role, timestamp} under PASSWORD.
Handled == ret.op = "middleware"
Protected == ~shouldSkipAuth(ret.pathname)
CarriesAll(a) ==
  /\ a.username # {} /\ a.role # {} /\ a.signature # {} /\ a.timestamp # {}
  /\ a.tokenId # {} /\ a.refreshToken # {} /\ a.refreshExpires # {}
ValidSignature(a, secret) ==
  HexDecode(The(a.signature)) = Hmac(The(a.username), The(a.role), The(a.timestamp), secret)

C13_LetThroughOnlyWhenSigned ==
  (Handled /\ ret.storageType # "localstorage" /\ ret.PASSWORD # {} /\ Protected
     /\ ret.response.kind = "next") =>
    /\ ret.authInfo # {}
    /\ CarriesAll(The(ret.authInfo))
    /\ ret.now < The(The(ret.authInfo).refreshExpires)
    /\ ValidSignature(The(ret.authInfo), The(ret.PASSWORD))

C13_Witness ==
  /\ Handled /\ ret.storageType # "localstorage" /\ ret.PASSWORD # {} /\ Protected
  /\ ret.response.kind = "next"
  /\ IsApi(ret.pathname)

\* C14: a request that reaches the token age checks with an access token
\* older than ACCESS_TOKEN_AGE: on a path starting with /api it is answered
\* 401 'Access token expired' while the refresh token is unexpired and the
\* auth-failure 401 'Unauthorized' once the refresh token has expired; on a
\* page path with an unexpired refresh token and a valid signature it is
\* let through.
ReachesAgeChecks ==
  /\ Handled /\ ret.storageType # "localstorage" /\ ret.PASSWORD # {} /\ Protected
  /\ ret.authInfo # {}
  /\ LET a == The(ret.authInfo)
     IN  /\ ~FalsyString(a.username) /\ ~FalsyString(a.role) /\ a.signature # {}
         /\ ~FalsyNumber(a.timestamp) /\ ~FalsyString(a.tokenId)
         /\ ~FalsyString(a.refreshToken) /\ ~FalsyNumber(a.refreshExpires)
AccessTokenExpired ==
  ret.now - The(The(ret.authInfo).timestamp) > ACCESS_TOKEN_AGE
RefreshTokenExpired == ret.now >= The(The(ret.authInfo).refreshExpires)

C14_ExpiredAccessToken ==
  (ReachesAgeChecks /\ AccessTokenExpired) =>
    /\ IsApi(ret.pathname) =>
         /\ ret.response.kind # "next"
         /\ ret.response.status = 401
         /\ ret.response.body = IF RefreshTokenExpired THEN "Unauthorized"
                                ELSE "Access token expired"
    /\ (~IsApi(ret.pathname) /\ ~RefreshTokenExpired
          /\ ValidSignature(The(ret.authInfo), The(ret.PASSWORD))) =>
         ret.response.kind = "next"

C14_Witness ==
  /\ ReachesAgeChecks /\ AccessTokenExpired /\ ~RefreshTokenExpired
  /\ IsApi(ret.pathname)
  /\ ret.response.body = "Access token expired"

C14_WitnessPage ==
  /\ ReachesAgeChecks /\ AccessTokenExpired /\ ~RefreshTokenExpired
  /\ ~IsApi(ret.pathname)
  /\ ret.response.kind = "next"

C16_OneAudioTaskPerKey ==
  [][/\ \A t1, t2 \in audioTasks' : t1.key = t2.key => t1 = t2
     /\ \A p \in Platforms, s \in SongIds, q \in Qualities :
          (CacheAudioToOpenList(p, s, q) /\ InFlight(TaskKey(p, s, q)) # {}) =>
            /\ audioTasks' = audioTasks
            /\ ret'.promise = {t.id : t \in InFlight(TaskKey(p, s, q))}]_vars

C16_Witness ==
  /\ ret.op = "cacheAudioToOpenList" /\ ~ret.started
  /\ \E t \in audioTasks : t.key = ret.taskKey /\ ret.promise = {t.id} /\ t.at = "upload"
  /\ Cardinality(audioTasks) >= 2

\* C17: what is served from serverCache.proxyRequests was obtained from
\* upstream at most CACHE_DURATION before it is served.
C17_ServedCacheNotOlderThanDuration ==
  (ret.op \in {"toplists", "parse"} /\ ret.from = "memory") =>
    ret.now - ret.data.obtainedAt <= CACHE_DURATION

\* C20: batchSetMusicPlayRecords writes all of its records or none.
C20_BatchAllOrNothing ==
  [][\A userName \in Usernames, records \in MusicRecordBatches :
       (\E connected \in SUBSET {MusicPlayRecordRow(userName, r) : r \in records} :
          BatchSetMusicPlayRecords(userName, records, connected)) =>
         \/ music_play_records' = music_play_records
         \/ \A r \in records :
              MusicPlayRecordRow(userName, r) \in music_play_records']_vars

\* C21: hGetAll(h) is the hash that hSet, hDel and del of h have built:
\* hSet(h, f, v) puts the pair, hDel(h, f) removes the field, del(h) empties
\* it, and hSet, hDel and del of another hash key leave it as it was.
WithoutField(hash, f) == {e \in hash : e.field # f}

C21_HashKeysAreIndependent ==
  [][\A h \in HashKeys, f \in HashFields :
       /\ \A v \in HashValues :
            HSet(h, f, v) =>
              hGetAll(global_config', h)
                = WithoutField(hGetAll(global_config, h), f)
                    \cup {[field |-> f, value |-> v]}
       /\ HDel(h, f) =>
            hGetAll(global_config', h) = WithoutField(hGetAll(global_config, h), f)
       /\ Del(h) => hGetAll(global_config', h) = {}
       /\ \A other \in HashKeys \ {h} :
            ((\E v \in HashValues : HSet(other, f, v)) \/ HDel(other, f) \/ Del(other))
              => hGetAll(global_config', h) = hGetAll(global_config, h)]_vars

\* C22: when clearAllData has completed no per-user data is left: play
\* records, favorites, search history, skip configs, danmaku filter
\* configs, notifications, movie requests, music play records, music
\* playlists and playlist songs are all empty.
C22_ClearAllDataEmptiesEveryTable ==
  [][ClearAllData =>
       /\ play_records' = {} /\ favorites' = {} /\ search_history' = {}
       /\ skip_configs' = {} /\ danmaku_filter_configs' = {}
       /\ notifications' = {} /\ user_movie_requests' = {}
       /\ music_play_records' = {} /\ music_playlists' = {}
       /\ music_playlist_songs' = {}]_vars

\* C23: after deleteUser(u) or deleteUserV2(u) of a user other than the
\* site owner, getUserInfoV2(u) returns null.
C23_DeletedUserHasNoInfo ==
  [][\A u \in Usernames \ {USERNAME} :
       (DeleteUser(u) \/ DeleteUserV2(u)) =>
         IsNull(getUserInfoV2(backend', users', userInfoCache', now', u).info)]_vars

\* C24: when a getUserInfoV2(u) and an updateUserInfoV2(u, ...) that ran
\* side by side have both finished (no call is in flight), a later
\* getUserInfoV2(u) returns the role and the banned flag of the users row as
\* the update left it: the cache does not hold the row from before the update.
C24_LaterReadsSeeTheUpdate ==
  \A u \in RaceUsernames :
    (reading = {} /\ updating = {} /\ HasUser(users, u)) =>
      LET info == getUserInfoV2(backend, users, userInfoCache, now, u).info
          row == RowToUserInfo(backend, UserRow(users, u), u)
      IN  info.role = row.role /\ info.banned = row.banned

\* C25: a PostgresStorage write (createUserV2, setPlayRecord, setFavorite,
\* deleteUserV2) whose statement failed has rejected: it has not resolved as
\* if the write had been made.
C25_FailedWriteRejects ==
  ("failed" \in DOMAIN ret /\ ret.failed) => ret.outcome = "rejected"

\* The lines of a playlist as the claim C26 sorts them.
IsCommentLine(line) == StartsWithHash(line)
IsBlankLine(line) == \A i \in 1 .. Len(line) : line[i] \in Whitespace
IsUrlLine(line) == ~IsCommentLine(line) /\ ~IsBlankLine(line)
IsProxyLink(line) ==
  /\ Len(line) > Len(ProxyOrigin)
  /\ SubSeq(line, 1, Len(ProxyOrigin) + 1) = ProxyOrigin \o <<"/api/proxy-m3u8?url=">>
FirstUrlLineAfterStreamInf(lines, i) ==
  \E j \in 1 .. i - 1 :
    /\ StartsWithPiece(lines[j], "#EXT-X-STREAM-INF:")
    /\ \A k \in j + 1 .. i - 1 : ~IsUrlLine(lines[k])
Resolved == ret.op = "resolveM3u8Links"

\* resolveM3u8Links returns as many lines as it was given.
C26_KeepsTheLines == Resolved => Len(ret.resolved) = Len(ret.m3u8Content)
\* Comment lines other than #EXT-X-KEY and blank lines come out as they went in.
C26_KeepsCommentsAndBlanks ==
  Resolved =>
    \A i \in 1 .. Len(ret.m3u8Content) :
      LET line == ret.m3u8Content[i]
      IN  (IsBlankLine(line) \/
           (IsCommentLine(line) /\ ~StartsWithPiece(line, "#EXT-X-KEY:")))
            => ret.resolved[i] = line
\* Every URL line comes out as an absolute URL.
C26_UrlLinesBecomeAbsolute ==
  Resolved =>
    \A i \in 1 .. Len(ret.m3u8Content) :
      IsUrlLine(ret.m3u8Content[i]) => StartsWithHttp(ret.resolved[i])
\* A proxy link carries the source and the token the request gave.
C26_ProxyLinkCarriesSourceAndToken ==
  Resolved =>
    \A i \in 1 .. Len(ret.m3u8Content) :
      (IsUrlLine(ret.m3u8Content[i]) /\ IsProxyLink(ret.resolved[i])) =>
        /\ ret.source # <<>> => Includes(ret.resolved[i], "&source=")
        /\ ret.token # <<>> => Includes(ret.resolved[i], "&token=")
\* A URL line comes out as a proxy link exactly when the line contains
\* '.m3u8' or is the first URL line after a #EXT-X-STREAM-INF tag.
C26_ProxiedExactlyWhenChildPlaylist ==
  Resolved =>
    \A i \in 1 .. Len(ret.m3u8Content) :
      IsUrlLine(ret.m3u8Content[i]) =>
        (IsProxyLink(ret.resolved[i]) <=>
           (Includes(ret.m3u8Content[i], ".m3u8")
              \/ FirstUrlLineAfterStreamInf(ret.m3u8Content, i)))

\* C26: resolveM3u8Links keeps the number and order of the lines, leaves
\* comment lines other than #EXT-X-KEY and blank lines unchanged, makes every
\* URL line absolute, and turns a URL line into a link to
\* {origin}/api/proxy-m3u8?url=... with the source and token parameters
\* exactly when the line contains '.m3u8' or is the first URL line after a
\* #EXT-X-STREAM-INF tag.
C26_ResolveM3u8Links ==
  /\ C26_KeepsTheLines
  /\ C26_KeepsCommentsAndBlanks
  /\ C26_UrlLinesBecomeAbsolute
  /\ C26_ProxyLinkCarriesSourceAndToken
  /\ C26_ProxiedExactlyWhenChildPlaylist

Filtered == ret.op = "filterAdsFromM3U8Default"
\* sub is what is left of s when some of its elements are taken out
RECURSIVE IsSubsequence(_, _)
IsSubsequence(sub, s) ==
  IF sub = <<>> THEN TRUE
  ELSE IF s = <<>> THEN FALSE
  ELSE IF Head(sub) = Head(s) THEN IsSubsequence(Tail(sub), Tail(s))
  ELSE IsSubsequence(sub, Tail(s))
HasAdSegment(lines) ==
  \E i \in 1 .. Len(lines) - 1 :
    Includes(lines[i], "#EXTINF:") /\ ContainsAdKeyword(lines[i + 1])

\* The filtered playlist has no #EXT-X-DISCONTINUITY line.
C27_NoDiscontinuityLeft ==
  Filtered =>
    \A i \in 1 .. Len(ret.filtered) : ~Includes(ret.filtered[i], "#EXT-X-DISCONTINUITY")
\* The lines of the filtered playlist are lines of the input in their order.
C27_KeptLinesInOrder ==
  Filtered => (ret.filtered = <<<<>>>> \/ IsSubsequence(ret.filtered, ret.m3u8Content))
\* The filtered playlist has no #EXTINF directly followed by an ad line.
C27_NoAdSegmentLeft == Filtered => ~HasAdSegment(ret.filtered)
\* Filtering the filtered playlist again changes nothing.
C27_Idempotent == Filtered => ret.again = ret.filtered

\* C27: the playlist the default ad filter returns has no #EXT-X-DISCONTINUITY
\* line and no #EXTINF line directly followed by a line with an ad keyword,
\* filtering it again changes nothing, and the lines kept are in the order
\* they had in the input.
C27_FilterAdsIsIdempotent ==
  /\ C27_NoDiscontinuityLeft
  /\ C27_KeptLinesInOrder
  /\ C27_NoAdSegmentLeft
  /\ C27_Idempotent
====
